---- MODULE Spec2Model ----
(***************************************************************************)
(* Verification model of the TokenDiscoveryFuzzer core:                    *)
(*   - SmartTokens, the bounded token dictionary (smart_token_mutations.rs)*)
(*   - SharedTokenStorage, the seqlock token channel                       *)
(*     (tokens/shared_token_storage.rs)                                    *)
(*   - Sais, the suffix-array common-substring processor                   *)
(*     (processors/sais.rs)                                                *)
(*   - MutationDeltaExtractor (extractors/mutation_delta.rs)               *)
(*   - TokenPreservingScheduledMutator (token_mutator.rs)                  *)
(* Indices are 0-based as in the source; element i of a Rust Vec v is      *)
(* v[i + 1] of the TLA+ sequence that models it.                           *)
(***************************************************************************)
EXTENDS Integers, Sequences, FiniteSets, TLC

(***************************************************************************)
(* Bounds of the model.                                                    *)
(***************************************************************************)
\* largest capacity a SmartTokens is created with
MaxCapacity == 2
\* cap on a TokenStat's uses counter (u64 in the source)
MaxUses == 2
\* longest token list of one bulk add
MaxBulk == 2
\* max_tokens and max_token_len given to SharedTokenStorage::get_or_create
ShmTokens == 2
ShmTokenLen == 1
\* number of write_tokens calls of a behaviour
MaxWrites == 2
\* number of reader processes attached to the region
NumReaders == 1
\* corpus given to Sais::process: number of inputs and bytes per input
SaisMaxInputs == 2
SaisMaxInputLen == 3
\* largest min_len and max_len of a Sais
SaisMaxLen == 3
\* largest target of SelectionMode::MinTokenCount
SaisMaxTarget == 2
\* parent and child of MutationDeltaExtractor::extract: bytes per input
MdMaxInputLen == 3
\* largest min_token_length and max_token_length of the configuration
MdMaxTokenLen == 2
\* max_stack_pow of the scheduler (7 in the source)
MaxStackPow == 2
\* max_size of the state: the longest input a mutation may produce
SchedMaxSize == 2
\* number of mutation rounds of a behaviour
SchedMaxRounds == 1
\* operator calls of one behaviour that drives the token operators directly
MaxOpCalls == 4

\* get_coverage calls of one behaviour of the coverage map observer
MaxCovCalls == 4

\* calls of TokenDiscoveryStage::perform of one behaviour, largest corpus,
\* most testcases one invocation adds to the corpus
StageMaxCalls == 3
StageMaxCorpus == 3
StageMaxNew == 1

\* search_tokens: bytes of the enumerated original and mutated inputs
SearchMaxInputLen == 2

\* the selection step of Sais alone: longest candidate list, largest corpus
\* size, largest MinTokenCount target
SelMaxCandidates == 3
SelMaxCorpus == 4
SelMaxTarget == 3

\* the token lists the processors are run on: most tokens, longest token
ProcMaxTokens == 2
ProcMaxTokenLen == 3

(***************************************************************************)
(* Constants of the program.                                               *)
(***************************************************************************)
MAXTOKENLENGTH == 16

MINTOKENLENGTH == 2

(***************************************************************************)
(* Common encodings.                                                       *)
(***************************************************************************)
\* Option<usize>::None; Some(i) is the natural number i
None == -1

Min(a, b) == IF a < b THEN a ELSE b

Max(a, b) == IF a > b THEN a ELSE b

Range(s) == {s[k] : k \in DOMAIN s}

\* s[from..to] of a Rust slice (0-based, `to` exclusive)
Slice(s, from, to) == [k \in 1..(to - from) |-> s[from + k]]

\* b occurs in e as a contiguous substring
Occurs(b, e) ==
    \E a \in 0..(Len(e) - Len(b)) : \A k \in 1..Len(b) : e[a + k] = b[k]

(***************************************************************************)
(* State.                                                                  *)
(***************************************************************************)
\* SmartTokens (smart_token_mutations.rs)
VARIABLES tokens_vec, tokens_set, stats, max_tokens, protected_idx

\* the last call on the dictionary: [op, arg, ret]
VARIABLE call

\* history: the index of the earliest protect_index call since the last
\* unprotect (None when there was none)
VARIABLE pinned

dictVars == <<tokens_vec, tokens_set, stats, max_tokens, protected_idx, call, pinned>>

\* SharedTokenStorage: the region (seq, count, data area)
VARIABLES shm_seq, shm_count, shm_data

\* the writer inside write_tokens: [pc, tokens, k, j, offset, written_count]
VARIABLE wr

\* the readers inside read_tokens: per reader
\* [pc, seq1, count, n, offset, lo, len, j, tokens, cur]
VARIABLE rd

\* per reader: last_sequence, and the value and the seq loads of the
\* read_tokens call that returned last (RetNone while a call is in progress)
VARIABLES last_sequence, rd_ret

\* history: the frames of the completed write_tokens calls, in order
VARIABLE frames

\* history: the token lists the write_tokens calls were given, in order
VARIABLE write_calls

\* history: per reader, the number of the frame its read_tokens returned last
\* (0 before the first)
VARIABLE delivered

shmVars ==
    <<shm_seq, shm_count, shm_data, wr, rd, last_sequence, rd_ret, frames,
      write_calls, delivered>>

\* Sais (processors/sais.rs): the struct [min_len, max_len, mode] and the
\* argument of process
VARIABLES sais, sais_inputs

\* process, step 1 and 2: [concat, input_id, sa, lcp]
VARIABLE sais_text

\* process, step 3: [pc, i, stack, candidates]
VARIABLE sais_scan

\* history: for each candidate pushed, the occurrence [pos, len] of concat
\* it was sliced from
VARIABLE sais_emitted

\* the value process returned: [some, tokens]
VARIABLE sais_ret

saisVars == <<sais, sais_inputs, sais_text, sais_scan, sais_emitted, sais_ret>>

\* MutationDeltaExtractor (extractors/mutation_delta.rs): the configured
\* token lengths, the parent (original_bytes), the child (mutated_bytes) and
\* the target the executor runs
VARIABLES md_cfg, md_parent, md_child, md_target

\* extract: [pc, test_vec, original_map, mutated_map, left_bound,
\* right_bound, i, runs, failed]; runs counts the get_coverage calls, failed
\* tells that one of them returned Err
VARIABLE md

\* the value extract returned: [some, token]
VARIABLE md_ret

\* what the state lacks when extract is called: the first of the lookups of
\* lines 42-54 that yields nothing, or "none"
VARIABLE md_missing

mdVars == <<md_cfg, md_parent, md_child, md_target, md, md_ret, md_missing>>

\* TokenPreservingScheduledMutator (token_mutator.rs):
\* [mutations, token_indices, last_token_used]
VARIABLE sched

\* SmartToken::last_token_idx of each wrapped operator
VARIABLE last_token_idx

\* the round in progress: [pc, use_token, iterations, r, corpus_id, n]; n
\* counts the rounds completed
VARIABLE round

\* the input being mutated
VARIABLE sched_input

\* history: the operator applied last in the round, [idx, phase], and the
\* dictionary indices of the tokens written to the input in the round
VARIABLES last_applied, written

\* history: the wrapped operators the scheduler's last post_exec called
\* post_exec on
VARIABLE forwarded

\* history: per wrapped operator, the dictionary index of its last mutate that
\* returned Mutated and was not yet followed by a post_exec of that operator
VARIABLE pending

schedVars ==
    <<sched, last_token_idx, round, sched_input, last_applied, written, forwarded,
      pending>>

\* get_coverage of the two mutation-delta implementations: which of them the
\* behaviour calls, "extractor" (extractors/mutation_delta.rs) or "strategy"
\* (strategies/mdelta/mutation_delta.rs)
VARIABLE cov_impl

\* the map of the coverage observer: the hit count of one edge
VARIABLE cov_map

\* history: what was done to the observer and the target, in order:
\* [op, map] with op "reset", "run" or "read" and the map after it
VARIABLE cov_log

\* the value the last get_coverage returned: [ok, map]
VARIABLE cov_ret

covVars == <<cov_impl, cov_map, cov_log, cov_ret>>

\* the selection step of Sais::process (sais.rs:122-169) on its own: the
\* candidates, the mode and corpus_size it is run with, and what it returns:
\* [pc, some, tokens]
VARIABLES sel_candidates, sel_mode, sel_corpus_size, sel_ret

selVars == <<sel_candidates, sel_mode, sel_corpus_size, sel_ret>>

\* a pipeline processor (processors/*.rs): [kind, parameters], the token
\* list process is called with, and what it returns: [pc, some, tokens]
VARIABLES proc, proc_in, proc_ret

procVars == <<proc, proc_in, proc_ret>>

\* TokenDiscoveryStage: its stage_executions counter, the size of the corpus
\* of the state, the TokenDiscoveryConfig it runs under and what its last
\* invocation did: [pc, ingested, searched]
VARIABLES stage_executions, stage_corpus_size, stage_cfg, stage_ret

\* history: the corpus size at the start of the previous invocation of the
\* stage (the stage keeps no such field)
VARIABLE last_corpus_size

stageVars ==
    <<stage_executions, stage_corpus_size, stage_cfg, stage_ret, last_corpus_size>>

\* TokenDiscoveryStage::search_tokens: the two inputs, its locals with the
\* position in its code: [pc, test_seq, test_seq_len, ...], and the token
\* it hands to add_token: [some, token]
VARIABLES search_original, search_mutated, search, search_ret

searchVars == <<search_original, search_mutated, search, search_ret>>

\* the components that are no part of the fuzzing loop proper
extraVars == <<covVars, selVars, procVars, stageVars, searchVars>>

\* the variables each component leaves alone
notDict == <<shmVars, saisVars, mdVars, schedVars, extraVars>>

notShm == <<dictVars, saisVars, mdVars, schedVars, extraVars>>

notSais == <<dictVars, shmVars, mdVars, schedVars, extraVars>>

notMd == <<dictVars, shmVars, saisVars, schedVars, extraVars>>

notSched == <<shmVars, saisVars, mdVars, extraVars>>

notCov ==
    <<dictVars, shmVars, saisVars, mdVars, schedVars, selVars, procVars, stageVars,
      searchVars>>

notSel ==
    <<dictVars, shmVars, saisVars, mdVars, schedVars, covVars, procVars, stageVars,
      searchVars>>

notProc ==
    <<dictVars, shmVars, saisVars, mdVars, schedVars, covVars, selVars, stageVars,
      searchVars>>

\* the discovery stage changes its own variables and the dictionary
notStage ==
    <<shmVars, saisVars, mdVars, schedVars, covVars, selVars, procVars, searchVars>>

notSearch ==
    <<dictVars, shmVars, saisVars, mdVars, schedVars, covVars, selVars, procVars,
      stageVars>>

vars == <<dictVars, shmVars, saisVars, mdVars, schedVars, extraVars>>

(***************************************************************************)
(* SmartTokens: the token dictionary.                                      *)
(***************************************************************************)
\* the tokens the dictionary operations are called with (byte vectors)
TokenUniverse == {<<1>>, <<2>>, <<1, 2>>, <<2, 1>>}


\* TokenStat::default()
TokenStatDefault == [uses |-> 1, successes |-> 1]

\* a success rate successes/uses as an exact fraction; for the counters of
\* the model the f64 quotient orders and equates rates exactly as the fraction
Rate(stat) == [num |-> stat.successes, den |-> stat.uses]

\* f64::MAX, the initial worst_rate: above every rate
F64_MAX == [num |-> 1, den |-> 0]

RateOne == [num |-> 1, den |-> 1]

RateLt(a, b) == a.num * b.den < b.num * a.den

\* find_eviction_index scanning with `<=`: the last of the worst entries wins
RECURSIVE EvictScanLastWins(_, _, _, _, _)
EvictScanLastWins(st, prot, i, worst_idx, worst_rate) ==
    IF i >= Len(st) THEN [idx |-> worst_idx, rate |-> worst_rate]
    ELSE IF i = prot THEN EvictScanLastWins(st, prot, i + 1, worst_idx, worst_rate)
    ELSE IF st[i + 1].uses > 0 /\ ~RateLt(worst_rate, Rate(st[i + 1]))
         THEN EvictScanLastWins(st, prot, i + 1, i, Rate(st[i + 1]))
         ELSE EvictScanLastWins(st, prot, i + 1, worst_idx, worst_rate)

\* the loop of find_eviction_index: returns the final (worst_idx, worst_rate)
RECURSIVE EvictScan(_, _, _, _, _)
EvictScan(st, prot, i, worst_idx, worst_rate) ==
    IF i >= Len(st) THEN [idx |-> worst_idx, rate |-> worst_rate]
    ELSE IF i = prot THEN EvictScan(st, prot, i + 1, worst_idx, worst_rate)
    ELSE IF st[i + 1].uses > 0 /\ RateLt(Rate(st[i + 1]), worst_rate)
         THEN EvictScan(st, prot, i + 1, i, Rate(st[i + 1]))
         ELSE EvictScan(st, prot, i + 1, worst_idx, worst_rate)

\* find_eviction_index without the protection checks
find_eviction_index_unprotected(st, prot) ==
    LET w == EvictScan(st, None, 0, 0, F64_MAX)
    IN  IF RateLt(RateOne, w.rate) THEN None ELSE w.idx

\* find_eviction_index that rejects unless some rate is below 1.0
find_eviction_index_below_one(st, prot) ==
    LET w == EvictScan(st, prot, 0, 0, F64_MAX)
    IN  IF prot # None /\ w.idx = prot THEN None
        ELSE IF ~RateLt(w.rate, RateOne) THEN None
        ELSE w.idx

find_eviction_index(st, prot) ==
    LET w == EvictScan(st, prot, 0, 0, F64_MAX)
    IN  IF prot # None /\ w.idx = prot THEN None
        ELSE IF RateLt(RateOne, w.rate) THEN None
        ELSE w.idx

\* add_token that appends whenever the token is new, ignoring max_tokens
add_token_unbounded(d, max, prot, token) ==
    IF token \in d.tokens_set THEN
        [tokens_vec |-> d.tokens_vec, tokens_set |-> d.tokens_set,
         stats |-> d.stats, ret |-> None]
    ELSE [tokens_vec |-> Append(d.tokens_vec, token),
          tokens_set |-> d.tokens_set \cup {token},
          stats |-> Append(d.stats, TokenStatDefault),
          ret |-> Len(d.tokens_vec)]

\* add_token that evicts without removing the old token from tokens_set
add_token_stale_set(d, max, prot, token) ==
    IF token \in d.tokens_set THEN
        [tokens_vec |-> d.tokens_vec, tokens_set |-> d.tokens_set,
         stats |-> d.stats, ret |-> None]
    ELSE IF Len(d.tokens_vec) < max THEN
        [tokens_vec |-> Append(d.tokens_vec, token),
         tokens_set |-> d.tokens_set \cup {token},
         stats |-> Append(d.stats, TokenStatDefault),
         ret |-> Len(d.tokens_vec)]
    ELSE
        LET idx == find_eviction_index(d.stats, prot)
        IN  IF idx # None THEN
                [tokens_vec |-> [d.tokens_vec EXCEPT ![idx + 1] = token],
                 tokens_set |-> d.tokens_set \cup {token},
                 stats |-> [d.stats EXCEPT ![idx + 1] = TokenStatDefault],
                 ret |-> idx]
            ELSE
                [tokens_vec |-> d.tokens_vec, tokens_set |-> d.tokens_set,
                 stats |-> d.stats, ret |-> None]

\* add_token without the duplicate check of its first lines
add_token_no_contains(d, max, prot, token) ==
    IF Len(d.tokens_vec) < max THEN
        [tokens_vec |-> Append(d.tokens_vec, token),
         tokens_set |-> d.tokens_set \cup {token},
         stats |-> Append(d.stats, TokenStatDefault),
         ret |-> Len(d.tokens_vec)]
    ELSE
        LET idx == find_eviction_index(d.stats, prot)
        IN  IF idx # None THEN
                [tokens_vec |-> [d.tokens_vec EXCEPT ![idx + 1] = token],
                 tokens_set |-> (d.tokens_set \ {d.tokens_vec[idx + 1]}) \cup {token},
                 stats |-> [d.stats EXCEPT ![idx + 1] = TokenStatDefault],
                 ret |-> idx]
            ELSE
                [tokens_vec |-> d.tokens_vec, tokens_set |-> d.tokens_set,
                 stats |-> d.stats, ret |-> None]

\* add_token that starts evicting one slot before the dictionary is full
add_token_evict_early(d, max, prot, token) ==
    IF token \in d.tokens_set THEN
        [tokens_vec |-> d.tokens_vec, tokens_set |-> d.tokens_set,
         stats |-> d.stats, ret |-> None]
    ELSE IF Len(d.tokens_vec) + 1 < max \/ d.tokens_vec = <<>> THEN
        [tokens_vec |-> Append(d.tokens_vec, token),
         tokens_set |-> d.tokens_set \cup {token},
         stats |-> Append(d.stats, TokenStatDefault),
         ret |-> Len(d.tokens_vec)]
    ELSE
        LET idx == find_eviction_index(d.stats, prot)
        IN  IF idx # None THEN
                [tokens_vec |-> [d.tokens_vec EXCEPT ![idx + 1] = token],
                 tokens_set |-> (d.tokens_set \ {d.tokens_vec[idx + 1]}) \cup {token},
                 stats |-> [d.stats EXCEPT ![idx + 1] = TokenStatDefault],
                 ret |-> idx]
            ELSE
                [tokens_vec |-> d.tokens_vec, tokens_set |-> d.tokens_set,
                 stats |-> d.stats, ret |-> None]

\* add_token on the dictionary d = [tokens_vec, tokens_set, stats] with
\* capacity max and protected index prot: the new fields and the return value
add_token(d, max, prot, token) ==
    IF token \in d.tokens_set THEN
        [tokens_vec |-> d.tokens_vec, tokens_set |-> d.tokens_set,
         stats |-> d.stats, ret |-> None]
    ELSE IF Len(d.tokens_vec) < max THEN
        [tokens_vec |-> Append(d.tokens_vec, token),
         tokens_set |-> d.tokens_set \cup {token},
         stats |-> Append(d.stats, TokenStatDefault),
         ret |-> Len(d.tokens_vec)]
    ELSE
        LET idx == find_eviction_index(d.stats, prot)
        IN  IF idx # None THEN
                [tokens_vec |-> [d.tokens_vec EXCEPT ![idx + 1] = token],
                 tokens_set |-> (d.tokens_set \ {d.tokens_vec[idx + 1]}) \cup {token},
                 stats |-> [d.stats EXCEPT ![idx + 1] = TokenStatDefault],
                 ret |-> idx]
            ELSE
                [tokens_vec |-> d.tokens_vec, tokens_set |-> d.tokens_set,
                 stats |-> d.stats, ret |-> None]

\* the token lists the bulk add is called with
TokenLists == UNION {[1..l -> TokenUniverse] : l \in 0..MaxBulk}

\* add_tokens: add_token for each token of the list, in order
RECURSIVE add_tokens(_, _, _, _)
add_tokens(d, max, prot, tokens) ==
    IF tokens = <<>> THEN d
    ELSE LET r == add_token(d, max, prot, Head(tokens))
         IN  add_tokens([tokens_vec |-> r.tokens_vec, tokens_set |-> r.tokens_set,
                         stats |-> r.stats], max, prot, Tail(tokens))

PREFERLARGERTOKENS == TRUE

PREFERSMALLERTOKENS == FALSE

\* is_subset_of: small is shorter than large and one of its windows
is_subset_of(small, large) == Len(small) < Len(large) /\ Occurs(small, large)

\* the can_add flag of the stage's add_token after its loop over the tokens
can_add(tokens, new_token) ==
    ~\E k \in DOMAIN tokens :
        \/ PREFERLARGERTOKENS /\ is_subset_of(new_token, tokens[k])
        \/ PREFERSMALLERTOKENS /\ is_subset_of(tokens[k], new_token)

\* update_stats that counts the success but not the use
update_stats_no_use(st, idx, success) ==
    IF idx >= 0 /\ idx < Len(st)
    THEN [st EXCEPT ![idx + 1] =
            [uses |-> @.uses,
             successes |-> IF success THEN @.successes + 1 ELSE @.successes]]
    ELSE st

\* update_stats: a no-op when idx is out of range
update_stats(st, idx, success) ==
    IF idx >= 0 /\ idx < Len(st)
    THEN [st EXCEPT ![idx + 1] =
            [uses |-> @.uses + 1,
             successes |-> IF success THEN @.successes + 1 ELSE @.successes]]
    ELSE st

Dict == [tokens_vec |-> tokens_vec, tokens_set |-> tokens_set, stats |-> stats]

\* SmartTokens::with_capacity(max_tokens)
DictInit ==
    /\ max_tokens \in 0..MaxCapacity
    /\ tokens_vec = <<>>
    /\ tokens_set = {}
    /\ stats = <<>>
    /\ protected_idx = None
    /\ call = [op |-> "with_capacity", arg |-> <<>>, ret |-> None]
    /\ pinned = None

AddToken(token) ==
    LET r == add_token(Dict, max_tokens, protected_idx, token)
    IN  /\ tokens_vec' = r.tokens_vec
        /\ tokens_set' = r.tokens_set
        /\ stats' = r.stats
        /\ call' = [op |-> "add_token", arg |-> token, ret |-> r.ret]
        /\ UNCHANGED <<max_tokens, protected_idx, pinned>>
        /\ UNCHANGED notDict

\* SmartTokens::add_tokens(tokens)
AddTokens(tokens) ==
    LET r == add_tokens(Dict, max_tokens, protected_idx, tokens)
    IN  /\ tokens_vec' = r.tokens_vec
        /\ tokens_set' = r.tokens_set
        /\ stats' = r.stats
        /\ call' = [op |-> "add_tokens", arg |-> <<>>, ret |-> None]
        /\ UNCHANGED <<max_tokens, protected_idx, pinned>>
        /\ UNCHANGED notDict

\* TokenDiscoveryStage::add_token(new_token): a discovered token is handed
\* to the dictionary's add_token unless a stored token contains it
DiscoverToken(new_token) ==
    LET r == add_token(Dict, max_tokens, protected_idx, new_token)
    IN  /\ IF can_add(tokens_vec, new_token)
           THEN /\ tokens_vec' = r.tokens_vec
                /\ tokens_set' = r.tokens_set
                /\ stats' = r.stats
                /\ call' = [op |-> "add_token", arg |-> new_token, ret |-> r.ret]
           ELSE /\ UNCHANGED <<tokens_vec, tokens_set, stats>>
                /\ call' = [op |-> "can_add", arg |-> <<>>, ret |-> None]
        /\ UNCHANGED <<max_tokens, protected_idx, pinned>>
        /\ UNCHANGED notDict

UpdateStats(idx, success) ==
    /\ idx < Len(stats) => stats[idx + 1].uses < MaxUses
    /\ stats' = update_stats(stats, idx, success)
    /\ call' = [op |-> "update_stats", arg |-> <<>>, ret |-> None]
    /\ UNCHANGED <<tokens_vec, tokens_set, max_tokens, protected_idx, pinned>>
    /\ UNCHANGED notDict

ProtectIndex(idx) ==
    /\ protected_idx' = idx
    /\ pinned' = IF pinned = None THEN idx ELSE pinned
    /\ call' = [op |-> "protect_index", arg |-> <<>>, ret |-> None]
    /\ UNCHANGED <<tokens_vec, tokens_set, stats, max_tokens>>
    /\ UNCHANGED notDict

Unprotect ==
    /\ protected_idx' = None
    /\ pinned' = None
    /\ call' = [op |-> "unprotect", arg |-> <<>>, ret |-> None]
    /\ UNCHANGED <<tokens_vec, tokens_set, stats, max_tokens>>
    /\ UNCHANGED notDict

DictNext ==
    \/ \E token \in TokenUniverse : AddToken(token)
    \/ \E idx \in 0..MaxCapacity, success \in BOOLEAN : UpdateStats(idx, success)
    \/ \E idx \in 0..MaxCapacity : ProtectIndex(idx)
    \/ Unprotect

\* the dictionary fed by the discovery stage only, between the calls the
\* token operators make
DiscoveryNext ==
    \/ \E new_token \in TokenUniverse : DiscoverToken(new_token)
    \/ \E idx \in 0..MaxCapacity, success \in BOOLEAN : UpdateStats(idx, success)
    \/ \E idx \in 0..MaxCapacity : ProtectIndex(idx)
    \/ Unprotect

\* the dictionary operations with the bulk add
BulkNext ==
    \/ DictNext
    \/ \E tokens \in TokenLists : AddTokens(tokens)

\* the dictionary of a behaviour that does not use it
DictParked ==
    /\ max_tokens = 0
    /\ tokens_vec = <<>>
    /\ tokens_set = {}
    /\ stats = <<>>
    /\ protected_idx = None
    /\ call = [op |-> "with_capacity", arg |-> <<>>, ret |-> None]
    /\ pinned = None

(***************************************************************************)
(* SharedTokenStorage: the seqlock token channel.                          *)
(* One writer, the readers of Readers.  Every action is one access to the  *)
(* shared region (the local computation up to the next access included);   *)
(* the accesses of one process happen in program order and the accesses    *)
(* of different processes interleave freely.                               *)
(***************************************************************************)

Readers == 1..NumReaders

\* self.shmem.len() - HEADER_SIZE with size = HEADER_SIZE + max_tokens * (2 + max_token_len)
max_data == ShmTokens * (2 + ShmTokenLen)

\* the token lists write_tokens is called with
WriteInputs ==
    {<<<<1>>>>, <<<<2>>, <<1>>>>, <<<<1, 2>>, <<2>>, <<1>>>>}

WriterIdle == [pc |-> "idle", tokens |-> <<>>, k |-> 0, j |-> 0, offset |-> 0,
               written_count |-> 0]

ReaderIdle == [pc |-> "idle", seq1 |-> 0, count |-> 0, n |-> 0, offset |-> 0,
               lo |-> 0, len |-> 0, j |-> 0, tokens |-> <<>>, cur |-> <<>>]

\* Option<Vec<Vec<u8>>> returned by read_tokens, with the seq values it loaded
RetNone == [some |-> FALSE, tokens |-> <<>>, seq1 |-> 0, seq2 |-> 0]

RetSome(tokens, s1, s2) == [some |-> TRUE, tokens |-> tokens, seq1 |-> s1, seq2 |-> s2]

\* (len as u16).to_le_bytes()
LeBytes(len) == <<len % 256, (len \div 256) % 256>>

\* u16::from_le_bytes
FromLeBytes(lo, hi) == lo + 256 * hi

\* the writer leaves the loop and publishes the number of tokens it was given
WriterBreakCountsAll(w) ==
    [WriterIdle EXCEPT !.pc = "count", !.written_count = Len(w.tokens),
                       !.tokens = SubSeq(w.tokens, 1, w.written_count)]

\* the writer leaves the loop: only written_count is used from here on (and
\* the tokens written, which the history variable frames records)
WriterBreak(w) ==
    [WriterIdle EXCEPT !.pc = "count", !.written_count = w.written_count,
                       !.tokens = SubSeq(w.tokens, 1, w.written_count)]

\* the writer's loop head: the next token is written only if its record fits
WriterLoop(w) ==
    IF w.k < Len(w.tokens) /\ w.offset + 2 + Len(w.tokens[w.k + 1]) <= max_data
    THEN [w EXCEPT !.pc = "len_lo"]
    ELSE WriterBreak(w)

\* the writer has copied one whole record
WriterRecordDone(w, len) ==
    WriterLoop([w EXCEPT !.offset = @ + len, !.written_count = @ + 1,
                         !.k = @ + 1, !.j = 0])

\* shm.fill(0) by the owner in get_or_create
ShmInit ==
    /\ shm_seq = 0
    /\ shm_count = 0
    /\ shm_data = [c \in 1..max_data |-> 0]
    /\ wr = WriterIdle
    /\ rd = [r \in Readers |-> ReaderIdle]
    /\ last_sequence = [r \in Readers |-> 0]
    /\ rd_ret = [r \in Readers |-> RetNone]
    /\ frames = <<>>
    /\ write_calls = <<>>
    /\ delivered = [r \in Readers |-> 0]

\* write_tokens, line 55: the first fetch_add, then the loop head
WriteBegin(tokens) ==
    /\ wr.pc = "idle"
    /\ Len(frames) < MaxWrites
    /\ shm_seq' = shm_seq + 1
    /\ wr' = WriterLoop([WriterIdle EXCEPT !.tokens = tokens])
    /\ write_calls' = Append(write_calls, tokens)
    /\ UNCHANGED <<shm_count, shm_data, rd, last_sequence, rd_ret, frames, delivered>>
    /\ UNCHANGED notShm

\* line 66: the two bytes of the length field, one store each
WriteLenLo ==
    /\ wr.pc = "len_lo"
    /\ shm_data' = [shm_data EXCEPT ![wr.offset + 1] = LeBytes(Len(wr.tokens[wr.k + 1]))[1]]
    /\ wr' = [wr EXCEPT !.pc = "len_hi"]
    /\ UNCHANGED <<shm_seq, shm_count, rd, last_sequence, rd_ret, frames, write_calls, delivered>>
    /\ UNCHANGED notShm

WriteLenHi ==
    /\ wr.pc = "len_hi"
    /\ shm_data' = [shm_data EXCEPT ![wr.offset + 2] = LeBytes(Len(wr.tokens[wr.k + 1]))[2]]
    /\ wr' = LET w == [wr EXCEPT !.offset = @ + 2]
             IN  IF Len(wr.tokens[wr.k + 1]) = 0
                 THEN WriterRecordDone(w, 0)
                 ELSE [w EXCEPT !.pc = "bytes", !.j = 0]
    /\ UNCHANGED <<shm_seq, shm_count, rd, last_sequence, rd_ret, frames, write_calls, delivered>>
    /\ UNCHANGED notShm

\* line 68: the bytes of the token, one store each
WriteByte ==
    /\ wr.pc = "bytes"
    /\ LET token == wr.tokens[wr.k + 1]
       IN  /\ shm_data' = [shm_data EXCEPT ![wr.offset + wr.j + 1] = token[wr.j + 1]]
           /\ wr' = IF wr.j + 1 = Len(token)
                    THEN WriterRecordDone(wr, Len(token))
                    ELSE [wr EXCEPT !.j = @ + 1]
    /\ UNCHANGED <<shm_seq, shm_count, rd, last_sequence, rd_ret, frames, write_calls, delivered>>
    /\ UNCHANGED notShm

\* line 74: write_volatile of count
WriteCount ==
    /\ wr.pc = "count"
    /\ shm_count' = wr.written_count
    /\ wr' = [wr EXCEPT !.pc = "end"]
    /\ UNCHANGED <<shm_seq, shm_data, rd, last_sequence, rd_ret, frames, write_calls, delivered>>
    /\ UNCHANGED notShm

\* line 75: the second fetch_add; write_tokens returns
WriteEnd ==
    /\ wr.pc = "end"
    /\ shm_seq' = shm_seq + 1
    /\ frames' = Append(frames, wr.tokens)
    /\ wr' = WriterIdle
    /\ UNCHANGED <<shm_count, shm_data, rd, last_sequence, rd_ret, write_calls, delivered>>
    /\ UNCHANGED notShm

\* the reader leaves the loop: only seq1 and tokens are used from here on
ReaderBreak(x) == [ReaderIdle EXCEPT !.pc = "seq2", !.seq1 = x.seq1, !.tokens = x.tokens]

\* the reader's loop head, lines 89-90
ReaderLoop(x) ==
    IF x.n < x.count /\ ~(x.offset + 2 > max_data)
    THEN [x EXCEPT !.pc = "len_lo"]
    ELSE ReaderBreak(x)

\* the reader has copied one whole record, line 97-98
ReaderRecordDone(x, token) ==
    ReaderLoop([x EXCEPT !.tokens = Append(@, token), !.offset = @ + Len(token),
                         !.n = @ + 1, !.j = 0, !.cur = <<>>, !.lo = 0, !.len = 0])

\* read_tokens that accepts a frame without comparing the second load
ReadEndUnchecked(x, s2, last) ==
    [ret |-> RetSome(x.tokens, x.seq1, s2), last |-> x.seq1]

\* read_tokens that does not store the sequence number of the frame it returns
ReadEndForgets(x, s2, last) ==
    IF x.seq1 # s2
    THEN [ret |-> RetNone, last |-> last]
    ELSE [ret |-> RetSome(x.tokens, x.seq1, s2), last |-> last]

\* read_tokens that stores the second sequence number it loaded when it
\* discards a frame
ReadEndMarksSeen(x, s2, last) ==
    IF x.seq1 # s2
    THEN [ret |-> RetNone, last |-> s2]
    ELSE [ret |-> RetSome(x.tokens, x.seq1, s2), last |-> x.seq1]

\* lines 102-106: the outcome of read_tokens once seq2 is loaded
ReadEnd(x, s2, last) ==
    IF x.seq1 # s2
    THEN [ret |-> RetNone, last |-> last]
    ELSE [ret |-> RetSome(x.tokens, x.seq1, s2), last |-> x.seq1]

\* lines 79-80: the first load of seq
ReadSeq1(r) ==
    /\ rd[r].pc = "idle"
    /\ IF shm_seq % 2 = 1 \/ shm_seq = last_sequence[r]
       THEN /\ rd_ret' = [rd_ret EXCEPT ![r] = [RetNone EXCEPT !.seq1 = shm_seq]]
            /\ UNCHANGED rd
       ELSE /\ rd' = [rd EXCEPT ![r] = [ReaderIdle EXCEPT !.pc = "count", !.seq1 = shm_seq]]
            /\ rd_ret' = [rd_ret EXCEPT ![r] = RetNone]
    /\ UNCHANGED <<shm_seq, shm_count, shm_data, wr, last_sequence, frames, write_calls, delivered>>
    /\ UNCHANGED notShm

\* line 82: read_volatile of count
ReadCount(r) ==
    /\ rd[r].pc = "count"
    /\ rd' = [rd EXCEPT ![r] = ReaderLoop([rd[r] EXCEPT !.count = shm_count])]
    /\ UNCHANGED <<shm_seq, shm_count, shm_data, wr, last_sequence, rd_ret, frames, write_calls, delivered>>
    /\ UNCHANGED notShm

\* line 93: the two bytes of the length field, one load each
ReadLenLo(r) ==
    /\ rd[r].pc = "len_lo"
    /\ rd' = [rd EXCEPT ![r] = [rd[r] EXCEPT !.lo = shm_data[rd[r].offset + 1],
                                              !.pc = "len_hi"]]
    /\ UNCHANGED <<shm_seq, shm_count, shm_data, wr, last_sequence, rd_ret, frames, write_calls, delivered>>
    /\ UNCHANGED notShm

\* a reader that copies a record whatever its length field says
RecordFitsUnchecked(offset, len) == TRUE

\* line 96: `if offset + len > max_data { break; }` lets the record through
RecordFits(offset, len) == ~(offset + len > max_data)

ReadLenHi(r) ==
    /\ rd[r].pc = "len_hi"
    /\ LET x == rd[r]
           len == FromLeBytes(x.lo, shm_data[x.offset + 2])
           y == [x EXCEPT !.offset = @ + 2, !.len = len]
       IN  rd' = [rd EXCEPT ![r] =
                    IF ~RecordFits(y.offset, len) THEN ReaderBreak(y)
                    ELSE IF len = 0 THEN ReaderRecordDone(y, <<>>)
                    ELSE [y EXCEPT !.pc = "bytes", !.j = 0, !.cur = <<>>]]
    /\ UNCHANGED <<shm_seq, shm_count, shm_data, wr, last_sequence, rd_ret, frames, write_calls, delivered>>
    /\ UNCHANGED notShm

\* line 97: the bytes of the record, one load each
ReadByte(r) ==
    /\ rd[r].pc = "bytes"
    /\ LET x == rd[r]
           cur == Append(x.cur, shm_data[x.offset + x.j + 1])
       IN  rd' = [rd EXCEPT ![r] =
                    IF x.j + 1 = x.len THEN ReaderRecordDone(x, cur)
                    ELSE [x EXCEPT !.j = @ + 1, !.cur = cur]]
    /\ UNCHANGED <<shm_seq, shm_count, shm_data, wr, last_sequence, rd_ret, frames, write_calls, delivered>>
    /\ UNCHANGED notShm

\* lines 102-106: the second load of seq; read_tokens returns
ReadSeq2(r) ==
    /\ rd[r].pc = "seq2"
    /\ LET e == ReadEnd(rd[r], shm_seq, last_sequence[r])
       IN  /\ rd_ret' = [rd_ret EXCEPT ![r] = e.ret]
           /\ last_sequence' = [last_sequence EXCEPT ![r] = e.last]
           /\ delivered' = IF e.ret.some
                           THEN [delivered EXCEPT ![r] = e.ret.seq1 \div 2]
                           ELSE delivered
    /\ rd' = [rd EXCEPT ![r] = ReaderIdle]
    /\ UNCHANGED <<shm_seq, shm_count, shm_data, wr, frames, write_calls>>
    /\ UNCHANGED notShm

ShmNext ==
    \/ \E tokens \in WriteInputs : WriteBegin(tokens)
    \/ WriteLenLo
    \/ WriteLenHi
    \/ WriteByte
    \/ WriteCount
    \/ WriteEnd
    \/ \E r \in Readers :
        \/ ReadSeq1(r)
        \/ ReadCount(r)
        \/ ReadLenLo(r)
        \/ ReadLenHi(r)
        \/ ReadByte(r)
        \/ ReadSeq2(r)

\* the steps of a write_tokens call after its first fetch_add
WriterStep ==
    \/ WriteLenLo
    \/ WriteLenHi
    \/ WriteByte
    \/ WriteCount
    \/ WriteEnd

\* the steps of reader r: read_tokens called again and again
ReaderStep(r) ==
    \/ ReadSeq1(r)
    \/ ReadCount(r)
    \/ ReadLenLo(r)
    \/ ReadLenHi(r)
    \/ ReadByte(r)
    \/ ReadSeq2(r)

\* the channel of a behaviour that does not use it
ShmParked ==
    /\ shm_seq = 0
    /\ shm_count = 0
    /\ shm_data = <<>>
    /\ wr = WriterIdle
    /\ rd = <<>>
    /\ last_sequence = <<>>
    /\ rd_ret = <<>>
    /\ frames = <<>>
    /\ write_calls = <<>>
    /\ delivered = <<>>

(***************************************************************************)
(* Sais: common substrings of the corpus from a suffix array.              *)
(* One process call per behaviour; the steps are those of the source: the  *)
(* text and its arrays, one iteration of the LCP scan at a time, the       *)
(* flush of the stack, the selection.                                      *)
(***************************************************************************)
\* the byte values of the enumerated corpora
SaisBytes == {1, 2}

\* SelectionMode; a threshold t is the fraction num/den
Threshold(n, d) == [kind |-> "Threshold", num |-> n, den |-> d, target |-> 0]

\* SelectionMode::ThresholdFn(ThresholdFunction::Fixed { value: n/d })
ThresholdFn(n, d) == [kind |-> "ThresholdFn", num |-> n, den |-> d, target |-> 0]

MinTokenCount(k) == [kind |-> "MinTokenCount", num |-> 0, den |-> 1, target |-> k]

SaisModes ==
    {Threshold(1, 2), Threshold(1, 1), ThresholdFn(1, 2)}
        \cup {MinTokenCount(k) : k \in 0..SaisMaxTarget}

\* byte strings of at most n bytes
BytesUpTo(n) == UNION {[1..l -> SaisBytes] : l \in 0..n}

\* the enumerated corpora
SaisCorpora == UNION {[1..m -> BytesUpTo(SaisMaxInputLen)] : m \in 0..SaisMaxInputs}

\* "abcdefgh", "xxabcdefyy", "--abcdefgh!!"
CorpusCommon ==
    << <<97, 98, 99, 100, 101, 102, 103, 104>>,
       <<120, 120, 97, 98, 99, 100, 101, 102, 121, 121>>,
       <<45, 45, 97, 98, 99, 100, 101, 102, 103, 104, 33, 33>> >>

\* "foo", "bar", "foobar"
CorpusGuard ==
    << <<102, 111, 111>>, <<98, 97, 114>>, <<102, 111, 111, 98, 97, 114>> >>

\* four inputs over the bytes 1 to 3 whose one-byte candidates repeat with
\* different counts
CorpusRepeat == << <<3, 2, 3>>, <<1, 3, 2, 1>>, <<3, 3, 2>>, <<2, 1, 3>> >>

SaisCase(c, a, b, m) == [inputs |-> c, min_len |-> a, max_len |-> b, mode |-> m]

\* the process calls of the model: the enumerated ones and the three
\* larger corpora with the parameters they are run with
SaisCases ==
    {SaisCase(c, a, b, m) : c \in SaisCorpora, a \in 1..SaisMaxLen,
                            b \in 1..SaisMaxLen, m \in SaisModes}
        \cup {SaisCase(CorpusCommon, 4, 16, Threshold(1, 1)),
              SaisCase(CorpusGuard, 6, 16, Threshold(1, 2)),
              SaisCase(CorpusRepeat, 1, 1, MinTokenCount(3))}

\* lines 31-39: the concatenation and, per byte, the index of its input
RECURSIVE Concat(_)
Concat(ins) == IF ins = <<>> THEN <<>> ELSE Head(ins) \o Concat(Tail(ins))

RECURSIVE InputId(_, _)
InputId(ins, id) ==
    IF ins = <<>> THEN <<>>
    ELSE [k \in 1..Len(Head(ins)) |-> id] \o InputId(Tail(ins), id + 1)

\* the suffix of t at a sorts before the suffix at b (a # b): bytewise, a
\* proper prefix first
RECURSIVE SuffixLt(_, _, _)
SuffixLt(t, a, b) ==
    IF a >= Len(t) THEN TRUE
    ELSE IF b >= Len(t) THEN FALSE
    ELSE IF t[a + 1] # t[b + 1] THEN t[a + 1] < t[b + 1]
    ELSE SuffixLt(t, a + 1, b + 1)

\* the suffix array of t: the start positions of its suffixes in sorted order
SuffixArray(t) ==
    LET P == 0..(Len(t) - 1)
        rank == [a \in P |-> Cardinality({b \in P : b # a /\ SuffixLt(t, b, a)})]
    IN  [r \in 1..Len(t) |-> CHOOSE a \in P : rank[a] = r - 1]

\* the length of the longest common prefix of the suffixes at a and b
RECURSIVE CommonPrefix(_, _, _)
CommonPrefix(t, a, b) ==
    IF a >= Len(t) \/ b >= Len(t) THEN 0
    ELSE IF t[a + 1] # t[b + 1] THEN 0
    ELSE 1 + CommonPrefix(t, a + 1, b + 1)

\* the LCP array: lcp[i] is the common prefix of the suffixes sa[i - 1] and
\* sa[i], lcp[0] = 0
LcpArray(t, sa) ==
    [r \in 1..Len(t) |-> IF r = 1 THEN 0 ELSE CommonPrefix(t, sa[r - 1], sa[r])]

SaisNone == [some |-> FALSE, tokens |-> {}]

SaisSome(tokens) == [some |-> TRUE, tokens |-> tokens]

NoText == [concat |-> <<>>, input_id |-> <<>>, sa |-> <<>>, lcp |-> <<>>]

ScanAt(pc) == [pc |-> pc, i |-> 0, stack |-> <<>>, candidates |-> <<>>]

Last(s) == s[Len(s)]

Front(s) == SubSeq(s, 1, Len(s) - 1)

\* the candidate of a popped group at its full level, max_len ignored
EmitWholeLevel(acc, g) ==
    LET pos == sais_text.sa[g.start + 1]
        len == g.level
    IN  IF Cardinality(g.inputs) >= 2 /\ pos + len <= Len(sais_text.concat)
        THEN [acc EXCEPT
                !.candidates = Append(@, [token |-> Slice(sais_text.concat, pos, pos + len),
                                          count |-> Cardinality(g.inputs)]),
                !.emitted = Append(@, [pos |-> pos, len |-> len])]
        ELSE acc

\* lines 74-80 and 112-118: the candidate of a popped group, if any
Emit(acc, g) ==
    LET pos == sais_text.sa[g.start + 1]
        len == Min(g.level, sais.max_len)
    IN  IF Cardinality(g.inputs) >= 2 /\ pos + len <= Len(sais_text.concat)
        THEN [acc EXCEPT
                !.candidates = Append(@, [token |-> Slice(sais_text.concat, pos, pos + len),
                                          count |-> Cardinality(g.inputs)]),
                !.emitted = Append(@, [pos |-> pos, len |-> len])]
        ELSE acc

\* lines 71-84: pop and emit the groups closed by a lower LCP
RECURSIVE PopClosed(_, _)
PopClosed(acc, lcp) ==
    IF acc.stack # <<>> /\ lcp < Last(acc.stack).level
    THEN PopClosed(Emit([acc EXCEPT !.stack = Front(@)], Last(acc.stack)), lcp)
    ELSE acc

\* lines 86-107: the current suffix joins the group on top or opens one
Push(stack, lcp, i, prev_input, current_input) ==
    IF lcp < sais.min_len THEN stack
    ELSE IF stack # <<>> /\ Last(stack).level = lcp
    THEN [stack EXCEPT ![Len(stack)].inputs = @ \cup {current_input}]
    ELSE Append(stack, [level |-> lcp, start |-> i - 1,
                        inputs |-> {prev_input, current_input}])

\* lines 111-119
RECURSIVE FlushStack(_)
FlushStack(acc) ==
    IF acc.stack = <<>> THEN acc
    ELSE FlushStack(Emit([acc EXCEPT !.stack = Front(@)], Last(acc.stack)))

\* ((corpus_size as f64) * t).ceil() for t = num/den
CeilMul(n, num, den) == (n * num + den - 1) \div den

\* candidates.sort_by(|a, b| b.1.cmp(&a.1)): stable, by count descending
\* (counts are at most v)
RECURSIVE SortByCount(_, _)
SortByCount(c, v) ==
    IF v < 0 THEN <<>>
    ELSE SelectSeq(c, LAMBDA x : x.count = v) \o SortByCount(c, v - 1)

\* candidates.dedup_by(|a, b| a.0 == b.0): of each run of consecutive
\* entries with equal bytes the first is kept
RECURSIVE Dedup(_)
Dedup(c) ==
    IF Len(c) <= 1 THEN c
    ELSE IF c[2].token = c[1].token THEN Dedup(<<c[1]>> \o SubSeq(c, 3, Len(c)))
    ELSE <<c[1]>> \o Dedup(Tail(c))

\* the tokens of the entries of c with count above m
AtLeastStrict(c, m) == {c[k].token : k \in {k \in DOMAIN c : c[k].count > m}}

\* the tokens of the entries of c with count at least m
AtLeast(c, m) == {c[k].token : k \in {k \in DOMAIN c : c[k].count >= m}}

\* lines 122-158: the tokens selected from the candidates
Select(candidates, mode, corpus_size) ==
    CASE mode.kind = "Threshold" ->
            AtLeast(candidates, CeilMul(corpus_size, mode.num, mode.den))
      [] mode.kind = "ThresholdFn" ->
            AtLeast(candidates, Max(CeilMul(corpus_size, mode.num, mode.den), 2))
      [] mode.kind = "MinTokenCount" ->
            LET d == Dedup(SortByCount(candidates, corpus_size))
            IN  IF Len(d) <= mode.target THEN AtLeast(d, 0)
                ELSE AtLeast(d, d[Max(mode.target - 1, 0) + 1].count)

\* the bytes of the candidates the selection is run on: two short tokens for
\* the enumerated lists, "A" to "E" for the list below
SelTokens == {<<1>>, <<2>>}

\* (A,5), (B,5), (C,3), (D,3), (E,2)
CandidatesTie ==
    << [token |-> <<65>>, count |-> 5], [token |-> <<66>>, count |-> 5],
       [token |-> <<67>>, count |-> 3], [token |-> <<68>>, count |-> 3],
       [token |-> <<69>>, count |-> 2] >>

\* a candidate stands for a group of at least two of the n inputs
Candidates(n) ==
    UNION {[1..l -> [token : SelTokens, count : 2..n]] : l \in 0..SelMaxCandidates}

SelModes ==
    {Threshold(1, 2), Threshold(3, 4), Threshold(1, 1), ThresholdFn(1, 2)}
        \cup {MinTokenCount(k) : k \in 0..SelMaxTarget}

SelCase(c, m, n) == [candidates |-> c, mode |-> m, corpus_size |-> n]

\* the selections of the model: the enumerated ones, and the list above
\* for a corpus of five inputs
SelCases ==
    {SelCase(c, m, n) : c \in Candidates(SelMaxCorpus), m \in SelModes,
                        n \in 2..SelMaxCorpus}
        \cup {SelCase(CandidatesTie, m, 5) : m \in SelModes}

SelPending == [pc |-> "select", some |-> FALSE, tokens |-> {}]

\* candidates, mode and corpus_size at line 121; no count exceeds
\* corpus_size
SelInit ==
    \E c \in SelCases :
        /\ \A k \in DOMAIN c.candidates : c.candidates[k].count <= c.corpus_size
        /\ sel_candidates = c.candidates
        /\ sel_mode = c.mode
        /\ sel_corpus_size = c.corpus_size
        /\ sel_ret = SelPending

\* lines 122-169: the selection and the value process returns
SelSelect ==
    /\ sel_ret.pc = "select"
    /\ LET tokens == Select(sel_candidates, sel_mode, sel_corpus_size)
       IN  sel_ret' = [pc |-> "done", some |-> tokens # {}, tokens |-> tokens]
    /\ UNCHANGED <<sel_candidates, sel_mode, sel_corpus_size>>
    /\ UNCHANGED notSel

SelNext == SelSelect

\* the selection of a behaviour that does not run it on its own
SelParked ==
    /\ sel_candidates = <<>>
    /\ sel_mode = MinTokenCount(0)
    /\ sel_corpus_size = 0
    /\ sel_ret = [SelPending EXCEPT !.pc = "done"]

\* a Sais and the corpus it is called with
SaisInit ==
    \E c \in SaisCases :
        /\ sais = [min_len |-> c.min_len, max_len |-> c.max_len, mode |-> c.mode]
        /\ sais_inputs = c.inputs
        /\ sais_text = NoText
        /\ sais_scan = ScanAt("start")
        /\ sais_emitted = <<>>
        /\ sais_ret = SaisNone

\* lines 23-55: the early returns, the concatenation, the suffix and LCP
\* arrays
SaisBuild ==
    /\ sais_scan.pc = "start"
    /\ LET concat == Concat(sais_inputs)
           sa == SuffixArray(concat)
       IN  IF sais_inputs = <<>> \/ concat = <<>>
           THEN /\ sais_scan' = ScanAt("done")
                /\ UNCHANGED sais_text
           ELSE /\ sais_text' = [concat |-> concat, input_id |-> InputId(sais_inputs, 0),
                                 sa |-> sa, lcp |-> LcpArray(concat, sa)]
                /\ sais_scan' = [ScanAt(IF 1 < Len(concat) THEN "scan" ELSE "flush")
                                    EXCEPT !.i = 1]
    /\ UNCHANGED <<sais, sais_inputs, sais_emitted, sais_ret>>
    /\ UNCHANGED notSais

\* lines 65-108: one iteration of the scan
SaisScan ==
    /\ sais_scan.pc = "scan"
    /\ LET i == sais_scan.i
           lcp == sais_text.lcp[i + 1]
           current_input == sais_text.input_id[sais_text.sa[i + 1] + 1]
           prev_input == sais_text.input_id[sais_text.sa[i] + 1]
           acc == PopClosed([stack |-> sais_scan.stack,
                             candidates |-> sais_scan.candidates,
                             emitted |-> sais_emitted], lcp)
       IN  /\ sais_scan' = [pc |-> IF i + 1 < Len(sais_text.sa) THEN "scan" ELSE "flush",
                            i |-> i + 1,
                            stack |-> Push(acc.stack, lcp, i, prev_input, current_input),
                            candidates |-> acc.candidates]
           /\ sais_emitted' = acc.emitted
    /\ UNCHANGED <<sais, sais_inputs, sais_text, sais_ret>>
    /\ UNCHANGED notSais

\* lines 111-119: the groups still open are emitted
SaisFlush ==
    /\ sais_scan.pc = "flush"
    /\ LET acc == FlushStack([stack |-> sais_scan.stack,
                              candidates |-> sais_scan.candidates,
                              emitted |-> sais_emitted])
       IN  /\ sais_scan' = [sais_scan EXCEPT !.pc = "select", !.stack = acc.stack,
                                             !.candidates = acc.candidates]
           /\ sais_emitted' = acc.emitted
    /\ UNCHANGED <<sais, sais_inputs, sais_text, sais_ret>>
    /\ UNCHANGED notSais

\* lines 122-169: the selection; process returns
SaisSelect ==
    /\ sais_scan.pc = "select"
    /\ LET tokens == Select(sais_scan.candidates, sais.mode, Len(sais_inputs))
       IN  sais_ret' = IF tokens = {} THEN SaisNone ELSE SaisSome(tokens)
    /\ sais_scan' = [sais_scan EXCEPT !.pc = "done"]
    /\ UNCHANGED <<sais, sais_inputs, sais_text, sais_emitted>>
    /\ UNCHANGED notSais

SaisNext ==
    \/ SaisBuild
    \/ SaisScan
    \/ SaisFlush
    \/ SaisSelect

\* the processor of a behaviour that does not use it
SaisParked ==
    /\ sais = [min_len |-> 1, max_len |-> 1, mode |-> Threshold(1, 1)]
    /\ sais_inputs = <<>>
    /\ sais_text = NoText
    /\ sais_scan = ScanAt("done")
    /\ sais_emitted = <<>>
    /\ sais_ret = SaisNone

(***************************************************************************)
(* MutationDeltaExtractor: the byte range of the child that flips the      *)
(* coverage fingerprint.  One extract call per behaviour; every action is  *)
(* one get_coverage call (one execution of the target) with the code       *)
(* around it.                                                              *)
(***************************************************************************)
\* the byte values of the enumerated parents and children
MdBytes == {1, 2}

MdStrings(n) == UNION {[1..l -> MdBytes] : l \in 0..n}

\* a target whose fingerprint tells whether the input contains m
SubstringTarget(m) == [kind |-> "substring", m |-> m]

\* a target whose fingerprint is arbitrary at every execution
FreeTarget == [kind |-> "free", m |-> <<>>]

MdTargets ==
    {SubstringTarget(m) : m \in MdStrings(MdMaxTokenLen) \ {<<>>}} \cup {FreeTarget}

\* "aaaaaaaa", "aaMAGICaa", "MAGIC"
ParentA == <<97, 97, 97, 97, 97, 97, 97, 97>>

ChildMagic == <<97, 97, 77, 65, 71, 73, 67, 97, 97>>

Magic == <<77, 65, 71, 73, 67>>

MdCase(p, c, t, a, b) ==
    [original_bytes |-> p, mutated_bytes |-> c, target |-> t,
     min_token_length |-> a, max_token_length |-> b]

\* the extract calls of the model: the enumerated ones, and the parent and
\* child above under the default token lengths of the legacy stage
MdCases ==
    {MdCase(p, c, t, a, b) : p \in MdStrings(MdMaxInputLen), c \in MdStrings(MdMaxInputLen),
                             t \in MdTargets, a \in 1..MdMaxTokenLen, b \in 1..MdMaxTokenLen}
        \cup {MdCase(ParentA, ChildMagic, SubstringTarget(Magic),
                     MINTOKENLENGTH, MAXTOKENLENGTH)}

\* the values of `state.rand_mut().next() as u8` told apart by the target:
\* the bytes of the call and one other value
RandBytes == Range(md_parent) \cup Range(md_child) \cup Range(md_target.m) \cup {0}

\* the fingerprints one execution of the target on input can leave in the map
Maps(input) ==
    IF md_target.kind = "substring"
    THEN {IF Occurs(md_target.m, input) THEN 1 ELSE 0}
    ELSE {0, 1}

\* get_coverage(input).ok(): Some(map), or None when the observer lookup,
\* reset_map or the execution fails (the error itself is dropped by ok())
GetCoverage(input) ==
    {[ok |-> TRUE, map |-> c] : c \in Maps(input)} \cup {[ok |-> FALSE, map |-> None]}

MdNone == [some |-> FALSE, token |-> <<>>]

\* Some(vec![token])
MdSome(token) == [some |-> TRUE, token |-> token]

MdLocals(pc) ==
    [pc |-> pc, test_vec |-> <<>>, original_map |-> None, mutated_map |-> None,
     left_bound |-> 0, right_bound |-> 0, i |-> 0, runs |-> 0, failed |-> FALSE]

\* a failed get_coverage unwrapped: the error leaves extract as a panic
MdFailUnwrap(m) == [MdLocals("panic") EXCEPT !.runs = m.runs + 1, !.failed = TRUE]

\* `?` on a failed get_coverage: extract returns None
MdFail(m) == [MdLocals("done") EXCEPT !.runs = m.runs + 1, !.failed = TRUE]

\* a subtraction that always saturates: the left loop starts at index 0
SaturatingSubZero(a, b) == 0

\* right_bound.saturating_sub(cfg.max_token_length)
SaturatingSub(a, b) == IF a > b THEN a - b ELSE 0

\* the head of a left loop that runs up to and including right_bound
LeftHeadInclusive(m, i) ==
    IF i <= m.right_bound THEN [m EXCEPT !.pc = "left", !.i = i]
    ELSE [m EXCEPT !.pc = "emit", !.i = 0]

\* line 98: the head of the left loop; line 115 after it
LeftHead(m, i) ==
    IF i < m.right_bound THEN [m EXCEPT !.pc = "left", !.i = i]
    ELSE [m EXCEPT !.pc = "emit", !.i = 0]

\* the head of an extension loop that runs to the end of mutated_bytes
ExtendHeadToEnd(m, i) ==
    IF i < Len(md_child) /\ i < Len(m.test_vec)
    THEN [m EXCEPT !.pc = "extend", !.i = i]
    ELSE LeftHead(m, SaturatingSub(m.right_bound, md_cfg.max_token_length))

\* lines 81-84: the head of the extension loop
ExtendHead(m, i) ==
    IF i < Min(Len(md_child), m.left_bound + md_cfg.max_token_length)
          /\ i < Len(m.test_vec)
    THEN [m EXCEPT !.pc = "extend", !.i = i]
    ELSE LeftHead(m, SaturatingSub(m.right_bound, md_cfg.max_token_length))

\* line 65: the head of the right-anchor loop
AnchorHead(m, i) ==
    IF i < Len(md_child) THEN [m EXCEPT !.pc = "anchor", !.i = i]
    ELSE ExtendHead(m, m.right_bound)

\* lines 66-70: test_vec[i] = mutated_bytes[i], pushed at the end of test_vec
SetOrPush(test_vec, i, byte) ==
    IF i >= Len(test_vec) THEN Append(test_vec, byte)
    ELSE [test_vec EXCEPT ![i + 1] = byte]

\* line 100 with every byte drawn at random
LeftBytesRandom(test_vec, i) == RandBytes

\* line 100: the bytes the left loop may write to test_vec[i]
LeftBytes(test_vec, i) ==
    IF i >= Len(md_parent) \/ test_vec[i + 1] = md_parent[i + 1]
    THEN RandBytes
    ELSE {md_parent[i + 1]}

\* the lookups of lines 42-54: state.current_testcase(), its input(), its
\* parent_id(), state.corpus().get(parent_id), the parent's input()
MdMissing ==
    {"none", "current_testcase", "input", "parent_id", "parent_testcase", "parent_input"}

\* an extract call: configuration, parent, child, target, and what the state
\* lacks; the bytes of an input that is not there are empty
MdInit ==
    \E c \in MdCases, x \in MdMissing :
        /\ md_cfg = [min_token_length |-> c.min_token_length,
                     max_token_length |-> c.max_token_length]
        /\ md_parent = IF x = "none" THEN c.original_bytes ELSE <<>>
        /\ md_child = IF x \in {"current_testcase", "input"} THEN <<>>
                      ELSE c.mutated_bytes
        /\ md_target = c.target
        /\ md = MdLocals("load")
        /\ md_ret = MdNone
        /\ md_missing = x

\* lines 42-54: the bytes of the current testcase and of its parent; `?` on
\* a lookup that yields nothing returns None
MdLoad ==
    /\ md.pc = "load"
    /\ md' = IF md_missing = "none" THEN [md EXCEPT !.pc = "original_map"]
             ELSE [md EXCEPT !.pc = "done"]
    /\ UNCHANGED <<md_cfg, md_parent, md_child, md_target, md_ret, md_missing>>
    /\ UNCHANGED notMd

\* lines 42-58: test_vec = original_bytes.clone(), the fingerprint of the parent
MdOriginalMap ==
    /\ md.pc = "original_map"
    /\ \E o \in GetCoverage(md_parent) :
          md' = IF ~o.ok THEN MdFail(md)
                ELSE [md EXCEPT !.pc = "mutated_map", !.test_vec = md_parent,
                                !.original_map = o.map, !.runs = @ + 1]
    /\ UNCHANGED <<md_cfg, md_parent, md_child, md_target, md_ret, md_missing>>
    /\ UNCHANGED notMd

\* lines 59-62: the fingerprint of the child
MdMutatedMap ==
    /\ md.pc = "mutated_map"
    /\ \E o \in GetCoverage(md_child) :
          md' = IF ~o.ok THEN MdFail(md)
                ELSE AnchorHead([md EXCEPT !.mutated_map = o.map, !.runs = @ + 1], 0)
    /\ UNCHANGED <<md_cfg, md_parent, md_child, md_target, md_ret, md_missing>>
    /\ UNCHANGED notMd

\* lines 65-78: one iteration of the right-anchor loop
MdAnchor ==
    /\ md.pc = "anchor"
    /\ LET i == md.i
           test_vec == SetOrPush(md.test_vec, i, md_child[i + 1])
           m == [md EXCEPT !.test_vec = test_vec, !.runs = @ + 1]
       IN  \E o \in GetCoverage(test_vec) :
              md' = IF ~o.ok THEN MdFail(md)
                    ELSE IF o.map = md.mutated_map
                    THEN ExtendHead([m EXCEPT !.left_bound = i, !.right_bound = i + 1],
                                    i + 1)
                    ELSE AnchorHead(m, i + 1)
    /\ UNCHANGED <<md_cfg, md_parent, md_child, md_target, md_ret, md_missing>>
    /\ UNCHANGED notMd

\* lines 81-95: one iteration of the extension loop
MdExtend ==
    /\ md.pc = "extend"
    /\ LET i == md.i
           m == [md EXCEPT !.runs = @ + 1]
       IN  \E byte \in RandBytes :
           \E o \in GetCoverage([md.test_vec EXCEPT ![i + 1] = byte]) :
              md' = IF ~o.ok THEN MdFail(md)
                    ELSE IF o.map = md.mutated_map
                    THEN LeftHead([m EXCEPT !.right_bound = i],
                                  SaturatingSub(i, md_cfg.max_token_length))
                    ELSE ExtendHead(m, i + 1)
    /\ UNCHANGED <<md_cfg, md_parent, md_child, md_target, md_ret, md_missing>>
    /\ UNCHANGED notMd

\* lines 98-113: one iteration of the left loop; indexing test_vec past its
\* end panics
MdLeft ==
    /\ md.pc = "left"
    /\ LET i == md.i
           m == [md EXCEPT !.runs = @ + 1]
       IN  IF i >= Len(md.test_vec) THEN md' = [md EXCEPT !.pc = "panic"]
           ELSE \E byte \in LeftBytes(md.test_vec, i) :
                \E o \in GetCoverage([md.test_vec EXCEPT ![i + 1] = byte]) :
                   md' = IF ~o.ok THEN MdFail(md)
                         ELSE IF o.map = md.original_map
                         THEN [m EXCEPT !.pc = "emit", !.left_bound = i, !.i = 0]
                         ELSE LeftHead(m, i + 1)
    /\ UNCHANGED <<md_cfg, md_parent, md_child, md_target, md_ret, md_missing>>
    /\ UNCHANGED notMd

\* lines 115-128: the token, if long enough; a subtraction that underflows or
\* a slice past the end of mutated_bytes panics
MdEmit ==
    /\ md.pc = "emit"
    /\ IF md.right_bound < md.left_bound \/ md.right_bound > Len(md_child)
       THEN /\ md' = [md EXCEPT !.pc = "panic"]
            /\ UNCHANGED md_ret
       ELSE /\ md' = [md EXCEPT !.pc = "done"]
            /\ md_ret' = IF md.right_bound - md.left_bound >= md_cfg.min_token_length
                         THEN MdSome(Slice(md_child, md.left_bound, md.right_bound))
                         ELSE MdNone
    /\ UNCHANGED <<md_cfg, md_parent, md_child, md_target, md_missing>>
    /\ UNCHANGED notMd

MdNext ==
    \/ MdLoad
    \/ MdOriginalMap
    \/ MdMutatedMap
    \/ MdAnchor
    \/ MdExtend
    \/ MdLeft
    \/ MdEmit

\* the extractor of a behaviour that does not use it
MdParked ==
    /\ md_cfg = [min_token_length |-> 1, max_token_length |-> 1]
    /\ md_parent = <<>>
    /\ md_child = <<>>
    /\ md_target = FreeTarget
    /\ md = MdLocals("done")
    /\ md_ret = MdNone
    /\ md_missing = "none"

(***************************************************************************)
(* The pipeline processors other than Sais (processors/*.rs): each is a    *)
(* function from a token list to Option<token list>.  One process call per *)
(* behaviour.                                                              *)
(***************************************************************************)
ProcBytes == {0, 1}

\* the enumerated tokens, the empty one included
ProcTokens == UNION {[1..l -> ProcBytes] : l \in 0..ProcMaxTokenLen}

\* the enumerated input lists
ProcInputs == UNION {[1..m -> ProcTokens] : m \in 0..ProcMaxTokens}

\* an f64 parameter: the fraction num/den
Ratio(n, d) == [num |-> n, den |-> d]

ProcRatios == {Ratio(0, 1), Ratio(1, 2), Ratio(1, 1)}

\* the configured delimiters of SplitAt and bytes of StripBytes
ProcDelimiters == {<<>>, <<1>>, <<0, 1>>}

ProcDelimiterLists == UNION {[1..m -> ProcDelimiters] : m \in 0..2}

ProcStripBytes == {<<>>, <<0>>, <<1>>, <<0, 1>>}

ProcMinLengths == 0..2

\* the processors build_pipeline can construct
Processors ==
    {[kind |-> "FilterNullBytes", max_ratio |-> r] : r \in ProcRatios}
        \cup {[kind |-> "StripBytes", bytes_to_strip |-> b, min_length |-> n] :
                  b \in ProcStripBytes, n \in ProcMinLengths}
        \cup {[kind |-> "SplitAt", delimiters |-> d, min_length |-> n] :
                  d \in ProcDelimiterLists, n \in ProcMinLengths}
        \cup {[kind |-> "RemoveRepetitive", threshold |-> r] : r \in ProcRatios}
        \cup {[kind |-> "RemoveSimilar", threshold |-> r, keep |-> k] :
                  r \in ProcRatios, k \in {"Longer", "Shorter"}}
        \cup {[kind |-> "RemoveSubstrings"]}

\* what process returned: Some(tokens), None, or a panic
ProcSome(tokens) == [pc |-> "done", some |-> TRUE, tokens |-> tokens]

ProcNone == [pc |-> "done", some |-> FALSE, tokens |-> <<>>]

ProcPanic == [pc |-> "panic", some |-> FALSE, tokens |-> <<>>]

ProcCall == [pc |-> "call", some |-> FALSE, tokens |-> <<>>]

\* `if result.is_empty() { None } else { Some(result) }`
ProcReturn(result) == IF result = <<>> THEN ProcNone ELSE ProcSome(result)

\* the number of bytes of t equal to b
CountByte(t, b) == Cardinality({k \in DOMAIN t : t[k] = b})

\* filter_null_bytes.rs:11-14: null_count / len <= max_ratio; 0/0 is NaN and
\* compares false
KeepsNullRatio(p, t) ==
    /\ Len(t) > 0
    /\ CountByte(t, 0) * p.max_ratio.den <= p.max_ratio.num * Len(t)

\* filter_null_bytes.rs:8-19
FilterNullBytes(p, inputs) ==
    ProcReturn(SelectSeq(inputs, LAMBDA t : KeepsNullRatio(p, t)))

\* strip_bytes.rs:15-32: Some(stripped), or <<>> standing for None of the
\* filter_map, as a list of at most one token
StripToken(p, token) ==
    LET kept == {k \in DOMAIN token : token[k] \notin Range(p.bytes_to_strip)}
    IN  IF kept = {} THEN <<>>
        ELSE LET start == (CHOOSE k \in kept : \A j \in kept : k <= j) - 1
                 end == CHOOSE k \in kept : \A j \in kept : j <= k
                 stripped == Slice(token, start, end)
             IN  IF start >= end THEN <<>>
                 ELSE IF Len(stripped) >= p.min_length THEN <<stripped>>
                 ELSE <<>>

RECURSIVE StripAll(_, _)
StripAll(p, inputs) ==
    IF inputs = <<>> THEN <<>>
    ELSE StripToken(p, Head(inputs)) \o StripAll(p, Tail(inputs))

\* strip_bytes.rs:9-44
StripBytes(p, inputs) == ProcReturn(StripAll(p, inputs))

\* split_at.rs:54-64: the loop over i, with start and the fragments so far
RECURSIVE SplitLoop(_, _, _, _, _)
SplitLoop(data, delim, start, i, result) ==
    IF i <= Len(data) - Len(delim)
    THEN IF Slice(data, i, i + Len(delim)) = delim
         THEN SplitLoop(data, delim, i + Len(delim), i + Len(delim),
                        IF i > start THEN Append(result, Slice(data, start, i))
                        ELSE result)
         ELSE SplitLoop(data, delim, start, i + 1, result)
    ELSE IF start < Len(data) THEN Append(result, Slice(data, start, Len(data)))
    ELSE result

\* a split that does not look for the delimiter
split_by_delimiter_whole(data, delim) == <<data>>

\* split_at.rs:45-71
split_by_delimiter(data, delim) ==
    IF delim = <<>> \/ Len(data) < Len(delim) THEN <<data>>
    ELSE SplitLoop(data, delim, 0, 0, <<>>)

\* split_at.rs:37-39: every chunk split by delim
RECURSIVE SplitChunks(_, _)
SplitChunks(chunks, delim) ==
    IF chunks = <<>> THEN <<>>
    ELSE split_by_delimiter(Head(chunks), delim) \o SplitChunks(Tail(chunks), delim)

\* split_at.rs:36-42: the delimiters in listed order
RECURSIVE SplitByEach(_, _)
SplitByEach(chunks, delimiters) ==
    IF delimiters = <<>> THEN chunks
    ELSE SplitByEach(SplitChunks(chunks, Head(delimiters)), Tail(delimiters))

\* split_at.rs:33-43
split_token(p, token) == SplitByEach(<<token>>, p.delimiters)

RECURSIVE SplitTokens(_, _)
SplitTokens(p, inputs) ==
    IF inputs = <<>> THEN <<>>
    ELSE split_token(p, Head(inputs)) \o SplitTokens(p, Tail(inputs))

\* split_at.rs:11-27
SplitAt(p, inputs) ==
    ProcReturn(SelectSeq(SplitTokens(p, inputs), LAMBDA t : Len(t) >= p.min_length))

\* remove_repetitive.rs:16-22: max_count / len < threshold
KeepsVaried(p, token) ==
    /\ token # <<>>
    /\ LET counts == {CountByte(token, b) : b \in Range(token)}
           max_count == CHOOSE c \in counts : \A d \in counts : d <= c
       IN  max_count * p.threshold.den < p.threshold.num * Len(token)

\* remove_repetitive.rs:12-33
RemoveRepetitive(p, inputs) ==
    ProcReturn(SelectSeq(inputs, LAMBDA t : KeepsVaried(p, t)))

\* sort_by on the length, stable: descending (b.len().cmp(&a.len())) or
\* ascending; lengths are at most n
RECURSIVE SortByLenDesc(_, _)
SortByLenDesc(v, n) ==
    IF n < 0 THEN <<>>
    ELSE SelectSeq(v, LAMBDA t : Len(t) = n) \o SortByLenDesc(v, n - 1)

RECURSIVE SortByLenAsc(_, _, _)
SortByLenAsc(v, l, n) ==
    IF l > n THEN <<>>
    ELSE SelectSeq(v, LAMBDA t : Len(t) = l) \o SortByLenAsc(v, l + 1, n)

MaxLenOf(v) == IF v = <<>> THEN 0 ELSE CHOOSE n \in {Len(v[k]) : k \in DOMAIN v} :
                                          \A k \in DOMAIN v : Len(v[k]) <= n

\* remove_similar.rs:25-31: the row curr from the row prev, for the byte ca
\* at index i of a; rows are 1-based sequences of b.len() + 1 entries
RECURSIVE LevRow(_, _, _, _, _)
LevRow(prev, curr, ca, b, j) ==
    IF j >= Len(b) THEN curr
    ELSE LevRow(prev,
                Append(curr, IF ca = b[j + 1] THEN prev[j + 1]
                             ELSE 1 + Min(Min(prev[j + 1], prev[j + 2]), curr[j + 1])),
                ca, b, j + 1)

RECURSIVE LevRows(_, _, _, _)
LevRows(prev, a, b, i) ==
    IF i >= Len(a) THEN prev
    ELSE LevRows(LevRow(prev, <<i + 1>>, a[i + 1], b, 0), a, b, i + 1)

\* remove_similar.rs:19-35
levenshtein(a, b) == LevRows([j \in 1..(Len(b) + 1) |-> j - 1], a, b, 0)[Len(b) + 1]

\* a comparison of the similarity with the threshold that is strict
SimilarAbove(a, b, threshold) ==
    LET max_len == Max(Len(a), Len(b))
    IN  IF max_len = 0 THEN threshold.den > threshold.num
        ELSE (max_len - levenshtein(a, b)) * threshold.den > threshold.num * max_len

\* remove_similar.rs:37-44 and 62: similarity(a, b) >= threshold, with
\* similarity = 1 - dist / max_len
SimilarAtLeast(a, b, threshold) ==
    LET max_len == Max(Len(a), Len(b))
    IN  IF max_len = 0 THEN threshold.den >= threshold.num
        ELSE (max_len - levenshtein(a, b)) * threshold.den >= threshold.num * max_len

\* remove_similar.rs:60-68: the greedy pass
RECURSIVE KeepDissimilar(_, _, _)
KeepDissimilar(p, sorted, result) ==
    IF sorted = <<>> THEN result
    ELSE LET token == Head(sorted)
             dominated == \E k \in DOMAIN result :
                              SimilarAtLeast(token, result[k], p.threshold)
         IN  KeepDissimilar(p, Tail(sorted),
                            IF dominated THEN result ELSE Append(result, token))

\* remove_similar.rs:48-77
RemoveSimilar(p, inputs) ==
    LET sorted == IF p.keep = "Longer" THEN SortByLenDesc(inputs, MaxLenOf(inputs))
                  ELSE SortByLenAsc(inputs, 0, MaxLenOf(inputs))
    IN  ProcReturn(KeepDissimilar(p, sorted, <<>>))

\* a containment test that looks at the first window only
InWindowsFirst(existing, token) ==
    Len(token) <= Len(existing) /\ Slice(existing, 0, Len(token)) = token

\* remove_substrings.rs:19: existing.windows(token.len()).any(|w| w == token),
\* for a token that is not empty
InWindows(existing, token) ==
    \E i \in 0..(Len(existing) - Len(token)) :
        Slice(existing, i, i + Len(token)) = token

\* remove_substrings.rs:17-23: the greedy pass; [panic, result]. windows(0)
\* panics, and any() calls it once result holds a token
RECURSIVE KeepMaximal(_, _)
KeepMaximal(sorted, result) ==
    IF sorted = <<>> THEN [panic |-> FALSE, result |-> result]
    ELSE LET token == Head(sorted)
         IN  IF token = <<>> /\ result # <<>>
             THEN [panic |-> TRUE, result |-> result]
             ELSE LET is_substring == \E k \in DOMAIN result : InWindows(result[k], token)
                  IN  KeepMaximal(Tail(sorted),
                                  IF is_substring THEN result ELSE Append(result, token))

\* remove_substrings.rs:7-29
RemoveSubstrings(inputs) ==
    IF inputs = <<>> THEN ProcNone
    ELSE LET r == KeepMaximal(SortByLenDesc(inputs, MaxLenOf(inputs)), <<>>)
         IN  IF r.panic THEN ProcPanic ELSE ProcReturn(r.result)

\* a processor and the token list it is called with
ProcInit ==
    /\ proc \in Processors
    /\ proc_in \in ProcInputs
    /\ proc_ret = ProcCall

FilterNullBytesProcess ==
    /\ proc_ret.pc = "call"
    /\ proc.kind = "FilterNullBytes"
    /\ proc_ret' = FilterNullBytes(proc, proc_in)
    /\ UNCHANGED <<proc, proc_in>>
    /\ UNCHANGED notProc

StripBytesProcess ==
    /\ proc_ret.pc = "call"
    /\ proc.kind = "StripBytes"
    /\ proc_ret' = StripBytes(proc, proc_in)
    /\ UNCHANGED <<proc, proc_in>>
    /\ UNCHANGED notProc

SplitAtProcess ==
    /\ proc_ret.pc = "call"
    /\ proc.kind = "SplitAt"
    /\ proc_ret' = SplitAt(proc, proc_in)
    /\ UNCHANGED <<proc, proc_in>>
    /\ UNCHANGED notProc

RemoveRepetitiveProcess ==
    /\ proc_ret.pc = "call"
    /\ proc.kind = "RemoveRepetitive"
    /\ proc_ret' = RemoveRepetitive(proc, proc_in)
    /\ UNCHANGED <<proc, proc_in>>
    /\ UNCHANGED notProc

RemoveSimilarProcess ==
    /\ proc_ret.pc = "call"
    /\ proc.kind = "RemoveSimilar"
    /\ proc_ret' = RemoveSimilar(proc, proc_in)
    /\ UNCHANGED <<proc, proc_in>>
    /\ UNCHANGED notProc

RemoveSubstringsProcess ==
    /\ proc_ret.pc = "call"
    /\ proc.kind = "RemoveSubstrings"
    /\ proc_ret' = RemoveSubstrings(proc_in)
    /\ UNCHANGED <<proc, proc_in>>
    /\ UNCHANGED notProc

ProcNext ==
    \/ FilterNullBytesProcess
    \/ StripBytesProcess
    \/ SplitAtProcess
    \/ RemoveRepetitiveProcess
    \/ RemoveSimilarProcess
    \/ RemoveSubstringsProcess

\* the pipeline of a behaviour that runs no processor on its own
ProcParked ==
    /\ proc = [kind |-> "RemoveSubstrings"]
    /\ proc_in = <<>>
    /\ proc_ret = ProcNone

(***************************************************************************)
(* get_coverage: the coverage map observer around one execution of the     *)
(* target, as MutationDeltaExtractor and as MutationDeltaConfig do it.     *)
(* The caller stops at the first Err (`.ok()?`).                           *)
(***************************************************************************)
CovImpls == {"extractor", "strategy"}

\* the hits one execution adds to the edge
CovHits == {0, 1}

\* MapObserver::reset_map: the map at its initial value
reset_map(map) == 0

\* Executor::run_target: the executed edges are counted into the map (u8)
run_target(map, hits) == (map + hits) % 256

\* MapObserver::to_vec
to_vec(map) == map

CovEvent(op, map) == [op |-> op, map |-> map]

CovOk(map) == [ok |-> TRUE, map |-> map]

CovErr == [ok |-> FALSE, map |-> None]

\* no call yet
CovNoCall == [ok |-> TRUE, map |-> None]

CovInit ==
    /\ cov_impl \in CovImpls
    /\ cov_map \in CovHits
    /\ cov_log = <<>>
    /\ cov_ret = CovNoCall

\* the caller has calls left and no call has failed
CovCallable ==
    /\ cov_ret.ok
    /\ Cardinality({k \in 1..Len(cov_log) : cov_log[k].op = "run"}) < MaxCovCalls

\* extractors/mutation_delta.rs:131-163: outcome is the step that fails
\* (observer lookup before the run, reset_map, run_target, observer lookup
\* after the run) or "ok"
ExtractorGetCoverage(outcome, hits) ==
    /\ cov_impl = "extractor"
    /\ CovCallable
    /\ LET m1 == reset_map(cov_map)
           m2 == run_target(m1, hits)
           ran == cov_log \o <<CovEvent("reset", m1), CovEvent("run", m2)>>
       IN  CASE outcome \in {"observer_mut", "reset_map"} ->
                    /\ cov_ret' = CovErr
                    /\ UNCHANGED <<cov_map, cov_log>>
             [] outcome \in {"run_target", "observer"} ->
                    /\ cov_map' = m2
                    /\ cov_log' = ran
                    /\ cov_ret' = CovErr
             [] outcome = "ok" ->
                    /\ cov_map' = m2
                    /\ cov_log' = Append(ran, CovEvent("read", m2))
                    /\ cov_ret' = CovOk(to_vec(m2))
    /\ UNCHANGED cov_impl
    /\ UNCHANGED notCov

\* strategies/mdelta/mutation_delta.rs:157-181: outcome is the step that
\* fails (run_target, observer lookup) or "ok"
StrategyGetCoverage(outcome, hits) ==
    /\ cov_impl = "strategy"
    /\ CovCallable
    /\ LET m2 == run_target(cov_map, hits)
           ran == Append(cov_log, CovEvent("run", m2))
       IN  CASE outcome \in {"run_target", "observer"} ->
                    /\ cov_map' = m2
                    /\ cov_log' = ran
                    /\ cov_ret' = CovErr
             [] outcome = "ok" ->
                    /\ cov_map' = m2
                    /\ cov_log' = Append(ran, CovEvent("read", m2))
                    /\ cov_ret' = CovOk(to_vec(m2))
    /\ UNCHANGED cov_impl
    /\ UNCHANGED notCov

CovNext ==
    \/ \E outcome \in {"observer_mut", "reset_map", "run_target", "observer", "ok"},
          hits \in CovHits : ExtractorGetCoverage(outcome, hits)
    \/ \E outcome \in {"run_target", "observer", "ok"},
          hits \in CovHits : StrategyGetCoverage(outcome, hits)

\* the observer of a behaviour that takes no fingerprint
CovParked ==
    /\ cov_impl = "extractor"
    /\ cov_map = 0
    /\ cov_log = <<>>
    /\ cov_ret = CovNoCall

(***************************************************************************)
(* TokenDiscoveryStage::perform (token_discovery_stage.rs:87-161), the     *)
(* last stage of tuple_list!(calibration, mutational, discovery), with the *)
(* SmartTokens metadata of the state as its dictionary.                    *)
(***************************************************************************)
\* the tokens search_tokens can hand to add_token: token_length is at
\* least MINTOKENLENGTH and at most MAXTOKENLENGTH
StageTokens ==
    {t \in TokenUniverse : Len(t) >= MINTOKENLENGTH /\ Len(t) <= MAXTOKENLENGTH}

\* the DiscoveredTokens metadata of the current testcase: absent, or the
\* tokens search_tokens pushed when the testcase entered the corpus
StageMetadata ==
    {[some |-> FALSE, tokens |-> <<>>]}
        \cup {[some |-> TRUE, tokens |-> t] :
                 t \in UNION {[1..n -> StageTokens] : n \in 1..MaxBulk}}

\* what the search_tokens calls of one invocation isolate, one entry per
\* interesting corpus id: test_seq[lower_bound..upper_bound], empty when
\* the bounds meet
StageFound ==
    UNION {[1..n -> StageTokens \cup {<<>>}] : n \in 0..StageMaxNew}

\* TokenDiscoveryConfig: min_corpus_size and search_interval
StageConfigs ==
    [min_corpus_size : {0, StageMaxCorpus - 1}, search_interval : {1, 2}]

\* what an invocation did: ingested is true when add_tokens was called,
\* searched is the number of search_tokens calls
StageDid(ingested, searched) ==
    [pc |-> "done", ingested |-> ingested, searched |-> searched]

StageNoCall == [pc |-> "none", ingested |-> FALSE, searched |-> 0]

\* TokenDiscoveryStage::new: stage_executions: 0
StageInit ==
    /\ stage_executions = 0
    /\ stage_corpus_size \in 1..2
    /\ last_corpus_size = 0
    /\ stage_cfg \in StageConfigs
    /\ stage_ret = StageNoCall

\* the tail of search_tokens for each interesting corpus id in turn:
\* add_token(new_token) when token_length >= MINTOKENLENGTH
RECURSIVE SearchTokens(_, _, _, _)
SearchTokens(d, max, prot, found) ==
    IF found = <<>> THEN d
    ELSE LET new_token == Head(found)
             r == add_token(d, max, prot, new_token)
             next == IF /\ Len(new_token) >= MINTOKENLENGTH
                        /\ can_add(d.tokens_vec, new_token)
                     THEN [tokens_vec |-> r.tokens_vec,
                           tokens_set |-> r.tokens_set, stats |-> r.stats]
                     ELSE d
         IN  SearchTokens(next, max, prot, Tail(found))

\* perform: the counter, the current testcase (a failed try_transform_from
\* returns Ok(()) at once), add_tokens of its DiscoveredTokens metadata,
\* the mutations, of which Len(found) entered the corpus, and search_tokens
\* for each of them.  print_stats every 10_000 executions changes nothing.
\* perform reads neither the corpus size nor the configuration.
Perform(transform_ok, tokens, found) ==
    LET d1 == IF tokens.some
              THEN add_tokens(Dict, max_tokens, protected_idx, tokens.tokens)
              ELSE Dict
        d2 == SearchTokens([tokens_vec |-> d1.tokens_vec,
                            tokens_set |-> d1.tokens_set, stats |-> d1.stats],
                           max_tokens, protected_idx, found)
    IN  /\ stage_executions < StageMaxCalls
        /\ stage_corpus_size + Len(found) <= StageMaxCorpus
        /\ stage_executions' = stage_executions + 1
        /\ last_corpus_size' = stage_corpus_size
        /\ IF transform_ok
           THEN /\ tokens_vec' = d2.tokens_vec
                /\ tokens_set' = d2.tokens_set
                /\ stats' = d2.stats
                /\ stage_corpus_size' = stage_corpus_size + Len(found)
                /\ stage_ret' = StageDid(tokens.some, Len(found))
           ELSE /\ UNCHANGED <<tokens_vec, tokens_set, stats, stage_corpus_size>>
                /\ stage_ret' = StageDid(FALSE, 0)
        /\ call' = [op |-> "perform", arg |-> <<>>, ret |-> None]
        /\ UNCHANGED <<max_tokens, protected_idx, pinned, stage_cfg>>
        /\ UNCHANGED notStage

\* the mutational stage that runs before the discovery stage adds a
\* testcase to the corpus
CorpusGrows ==
    /\ stage_corpus_size < StageMaxCorpus
    /\ stage_corpus_size' = stage_corpus_size + 1
    /\ UNCHANGED <<stage_executions, last_corpus_size, stage_cfg, stage_ret>>
    /\ UNCHANGED dictVars
    /\ UNCHANGED notStage

StageNext ==
    \/ \E transform_ok \in BOOLEAN, tokens \in StageMetadata, found \in StageFound :
          Perform(transform_ok, tokens, found)
    \/ CorpusGrows

\* the stage of a behaviour that does not use it
StageParked ==
    /\ stage_executions = 0
    /\ stage_corpus_size = 1
    /\ last_corpus_size = 0
    /\ stage_cfg = [min_corpus_size |-> 0, search_interval |-> 1]
    /\ stage_ret = StageNoCall

(***************************************************************************)
(* TokenDiscoveryStage::search_tokens (token_discovery_stage.rs:221-344):  *)
(* the three loops over test_seq and the token they cut out of it.  The    *)
(* target is arbitrary: every execution may leave any map.                 *)
(***************************************************************************)
\* the byte values of the inputs
SearchBytes == {1, 2}

\* an input of n equal bytes
Filled(n, b) == [k \in 1..n |-> b]

\* original and mutated input: all short ones, and three pairs with a
\* mutated input longer than MAXTOKENLENGTH (original as long, original of
\* one byte, original equal to the mutated input but for its last byte)
SearchCases ==
    LET short == UNION {[1..l -> SearchBytes] : l \in 0..SearchMaxInputLen}
        long == MAXTOKENLENGTH + 1
    IN  (short \X short)
            \cup {<<Filled(long, 1), Filled(long, 2)>>,
                  <<Filled(1, 1), Filled(long, 2)>>,
                  <<Filled(long, 2), Filled(long - 1, 2) \o <<1>> >>}

\* the maps an execution of the target can leave
SearchMaps == {0, 1, 2}

\* the values of `state.rand_mut().next() as u8`: no branch depends on the
\* value; for the short inputs the bytes of the inputs and one other value,
\* for the long ones one value
SearchRand ==
    IF Len(search_mutated) > SearchMaxInputLen THEN {0} ELSE SearchBytes \cup {0}

\* get_input_coverage: Ok(map), or Err when the observer lookup, reset_map
\* or the execution fails
GetInputCoverage ==
    {[ok |-> TRUE, map |-> c] : c \in SearchMaps} \cup {[ok |-> FALSE, map |-> 0]}

SearchLocals(pc) ==
    [pc |-> pc, test_seq |-> <<>>, test_seq_len |-> 0, wrapped |-> FALSE,
     baseline_coverage |-> 0, target_coverage |-> 0,
     lower_bound |-> 0, upper_bound |-> 0, i |-> 0, end |-> 0]

\* what search_tokens hands to add_token, if anything
SearchNoToken == [some |-> FALSE, token |-> <<>>]

SearchToken(t) == [some |-> TRUE, token |-> t]

\* `i > test_seq_len`, test_seq_len being usize::MAX after a wrapped
\* subtraction
Beyond(s, i) == ~s.wrapped /\ i > s.test_seq_len

\* v[i] = b of a Vec
SetAt(v, i, b) == [v EXCEPT ![i + 1] = b]

SearchEnd(s, pc) == [s EXCEPT !.pc = pc]

\* entering the second loop: upper_bound.saturating_sub(MAXTOKENLENGTH)..
SearchToRevert(s) ==
    [s EXCEPT !.pc = "revert", !.i = SaturatingSub(s.upper_bound, MAXTOKENLENGTH)]

\* entering the third loop:
\* upper_bound..min(mutated_seq.len(), lower_bound + MAXTOKENLENGTH)
SearchToVerify(s) ==
    [s EXCEPT !.pc = "verify", !.i = s.upper_bound,
              !.end = Min(Len(search_mutated), s.lower_bound + MAXTOKENLENGTH)]

SearchInit ==
    \E c \in SearchCases :
        /\ search_original = c[1]
        /\ search_mutated = c[2]
        /\ search = SearchLocals("start")
        /\ search_ret = SearchNoToken

\* lines 231-255: the mutated testcase (a failed transformation returns
\* Ok(())), the two coverage maps and test_seq_len = test_seq.len() - 1,
\* which for an empty original input panics in a build with overflow checks
\* and wraps in one without
SearchBegin ==
    /\ search.pc = "start"
    /\ \/ search' = SearchEnd(search, "done")
       \/ \E r1, r2 \in GetInputCoverage, checks \in BOOLEAN :
             search' =
                IF ~r1.ok \/ ~r2.ok THEN SearchEnd(search, "error")
                ELSE IF search_original = <<>> /\ checks
                THEN SearchEnd(search, "panic")
                ELSE [search EXCEPT
                         !.pc = "forward",
                         !.test_seq = search_original,
                         !.baseline_coverage = r1.map,
                         !.target_coverage = r2.map,
                         !.wrapped = (search_original = <<>>),
                         !.test_seq_len = IF search_original = <<>> THEN 0
                                          ELSE Len(search_original) - 1]
    /\ UNCHANGED <<search_original, search_mutated, search_ret>>
    /\ UNCHANGED notSearch

\* lines 256-272: one iteration of the first loop
SearchForward ==
    /\ search.pc = "forward"
    /\ LET i == search.i
       IN  IF i >= Len(search_mutated) THEN search' = SearchToRevert(search)
           ELSE IF ~Beyond(search, i) /\ i >= Len(search.test_seq)
           THEN search' = SearchEnd(search, "panic")
           ELSE LET seq == IF Beyond(search, i)
                           THEN Append(search.test_seq, search_mutated[i + 1])
                           ELSE SetAt(search.test_seq, i, search_mutated[i + 1])
                    s == [search EXCEPT !.test_seq = seq]
                IN  \E r \in GetInputCoverage :
                       search' =
                          IF ~r.ok THEN SearchEnd(s, "error")
                          ELSE IF r.map = s.target_coverage
                          THEN SearchToRevert([s EXCEPT !.upper_bound = i + 1,
                                                        !.lower_bound = i])
                          ELSE [s EXCEPT !.i = i + 1]
    /\ UNCHANGED <<search_original, search_mutated, search_ret>>
    /\ UNCHANGED notSearch

\* lines 279-301: one iteration of the second loop
SearchRevert ==
    /\ search.pc = "revert"
    /\ LET i == search.i
       IN  IF i >= search.upper_bound THEN search' = SearchToVerify(search)
           ELSE IF Beyond(search, i)
           THEN search' = SearchToVerify([search EXCEPT !.lower_bound = i])
           ELSE IF i >= Len(search.test_seq) \/ i >= Len(search_original)
           THEN search' = SearchEnd(search, "panic")
           ELSE LET tmp == search.test_seq[i + 1]
                IN  \E b \in IF tmp = search_original[i + 1] THEN SearchRand
                             ELSE {search_original[i + 1]},
                       r \in GetInputCoverage :
                       LET s == [search EXCEPT !.test_seq = SetAt(@, i, b)]
                       IN  search' =
                              IF ~r.ok THEN SearchEnd(s, "error")
                              ELSE IF r.map = s.baseline_coverage
                              THEN SearchToVerify(
                                      [s EXCEPT !.lower_bound = i,
                                                !.test_seq = SetAt(@, i, tmp)])
                              ELSE [s EXCEPT !.i = i + 1]
    /\ UNCHANGED <<search_original, search_mutated, search_ret>>
    /\ UNCHANGED notSearch

\* lines 306-325: one iteration of the third loop
SearchVerify ==
    /\ search.pc = "verify"
    /\ LET i == search.i
       IN  IF i >= search.end \/ Beyond(search, i)
           THEN search' = SearchEnd(search, "add")
           ELSE IF i >= Len(search.test_seq)
           THEN search' = SearchEnd(search, "panic")
           ELSE LET tmp == search.test_seq[i + 1]
                IN  \E b \in SearchRand, r \in GetInputCoverage :
                       LET s == [search EXCEPT !.test_seq = SetAt(@, i, b)]
                       IN  search' =
                              IF ~r.ok THEN SearchEnd(s, "error")
                              ELSE IF r.map = s.target_coverage
                              THEN SearchEnd([s EXCEPT !.upper_bound = i,
                                                       !.test_seq = SetAt(@, i, tmp)],
                                             "add")
                              ELSE [s EXCEPT !.i = i + 1]
    /\ UNCHANGED <<search_original, search_mutated, search_ret>>
    /\ UNCHANGED notSearch

\* lines 327-343: token_length = upper_bound - lower_bound (a subtraction
\* that would underflow ends in "underflow"), the slice of test_seq and the
\* assert on its length (a failed assert ends in "assert")
SearchAdd ==
    /\ search.pc = "add"
    /\ LET token_length == search.upper_bound - search.lower_bound
           new_token == Slice(search.test_seq, search.lower_bound, search.upper_bound)
       IN  IF search.upper_bound < search.lower_bound
           THEN /\ search' = SearchEnd(search, "underflow")
                /\ UNCHANGED search_ret
           ELSE IF token_length < MINTOKENLENGTH
           THEN /\ search' = SearchEnd(search, "done")
                /\ UNCHANGED search_ret
           ELSE IF search.upper_bound > Len(search.test_seq)
           THEN /\ search' = SearchEnd(search, "panic")
                /\ UNCHANGED search_ret
           ELSE IF Len(new_token) > MAXTOKENLENGTH
           THEN /\ search' = SearchEnd(search, "assert")
                /\ UNCHANGED search_ret
           ELSE /\ search' = SearchEnd(search, "done")
                /\ search_ret' = SearchToken(new_token)
    /\ UNCHANGED <<search_original, search_mutated>>
    /\ UNCHANGED notSearch

SearchNext ==
    \/ SearchBegin
    \/ SearchForward
    \/ SearchRevert
    \/ SearchVerify
    \/ SearchAdd

\* search_tokens of a behaviour that does not call it
SearchParked ==
    /\ search_original = <<>>
    /\ search_mutated = <<>>
    /\ search = SearchLocals("done")
    /\ search_ret = SearchNoToken

\* the components that are no part of the fuzzing loop proper, parked
ExtraParked ==
    CovParked /\ SelParked /\ ProcParked /\ StageParked /\ SearchParked

(***************************************************************************)
(* TokenPreservingScheduledMutator with SmartTokenInsert and               *)
(* SmartTokenReplace, driven as the stages drive a mutator: mutate, and    *)
(* unless it reports Skipped, one execution of the input followed by       *)
(* post_exec.  The dictionary is the SmartTokens metadata of the state.    *)
(***************************************************************************)
\* the names of the wrapped operators; BitFlipMutator stands for the
\* operators of havoc_mutations()
OperatorNames == {"BitFlipMutator", "SmartTokenInsert", "SmartTokenReplace"}

\* name.contains("Token")
NameContainsToken(name) == name \in {"SmartTokenInsert", "SmartTokenReplace"}

\* the tuples the scheduler is built with
SchedTuples ==
    { <<"BitFlipMutator", "SmartTokenInsert", "SmartTokenReplace">>,
      <<"BitFlipMutator", "SmartTokenInsert">>,
      <<"SmartTokenInsert", "SmartTokenReplace">>,
      <<"BitFlipMutator">> }

\* identify_token_mutations: the indices of the operators named as token
\* operators
identify_token_mutations(mutations) ==
    {k \in 0..(Len(mutations) - 1) : NameContainsToken(mutations[k + 1])}

\* the tokens the dictionary of the state holds, in the order they were added
SchedTokens == << <<1>>, <<1, 2>>, <<2>>, <<2, 1>> >>

\* the inputs a round starts from
SchedInputs == {<<>>, <<0>>, <<0, 0>>}

\* schedule_non_token drawing from all operators
schedule_any(mutations, token_indices) == 0..(Len(mutations) - 1)

\* schedule_non_token: the indices it may return
schedule_non_token(mutations, token_indices) ==
    IF Len(mutations) - Cardinality(token_indices) = 0
    THEN token_indices
    ELSE (0..(Len(mutations) - 1)) \ token_indices

\* schedule: the indices it may return
schedule(mutations) == 0..(Len(mutations) - 1)

\* iterations: 1 << (1 + below_or_zero(max_stack_pow))
RECURSIVE Pow2(_)
Pow2(e) == IF e = 0 THEN 1 ELSE 2 * Pow2(e - 1)

Iterations == {Pow2(1 + p) : p \in 0..Max(MaxStackPow - 1, 0)}

Outcome(result, bytes, token_idx) ==
    [result |-> result, input |-> bytes, token_idx |-> token_idx]

\* an operator of the havoc set: it may skip, overwrite one byte or append one
HavocMutate(bytes) ==
    {Outcome("Skipped", bytes, None)}
        \cup {Outcome("Mutated", [bytes EXCEPT ![k] = 0], None) : k \in DOMAIN bytes}
        \cup (IF Len(bytes) < SchedMaxSize
              THEN {Outcome("Mutated", Append(bytes, 0), None)} ELSE {})

\* input.resize(new_len, value)
resize(v, new_len, value) ==
    [k \in 1..new_len |-> IF k <= Len(v) THEN v[k] ELSE value]

\* buffer_self_copy that moves nothing
buffer_self_copy_none(data, from, to, len) == data

\* buffer_self_copy(data, from, to, len): data[from..from+len] moved to
\* data[to..to+len], the ranges may overlap
buffer_self_copy(data, from, to, len) ==
    [k \in DOMAIN data |-> IF k > to /\ k <= to + len THEN data[from + (k - to)]
                           ELSE data[k]]

\* buffer_copy(dst, src, from, to, len): src[from..from+len] copied to
\* dst[to..to+len]
buffer_copy(dst, src, from, to, len) ==
    [k \in DOMAIN dst |-> IF k > to /\ k <= to + len THEN src[from + (k - to)]
                          ELSE dst[k]]

\* SmartTokenInsert::mutate that never shortens the token
TokenInsertWhole(bytes, token_idx, off) ==
    LET size == Len(bytes)
        token == tokens_vec[token_idx + 1]
        len == Len(token)
        resized == resize(bytes, size + len, 0)
        moved == buffer_self_copy(resized, off, off + len, size - off)
    IN  Outcome("Mutated", buffer_copy(moved, token, 0, off, len), token_idx)

\* SmartTokenInsert::mutate with the choices token_idx and off
TokenInsert(bytes, token_idx, off) ==
    LET size == Len(bytes)
        token == tokens_vec[token_idx + 1]
        len == IF size + Len(token) > SchedMaxSize THEN SchedMaxSize - size
               ELSE Len(token)
        resized == resize(bytes, size + len, 0)
        moved == buffer_self_copy(resized, off, off + len, size - off)
    IN  IF size + Len(token) > SchedMaxSize /\ ~(SchedMaxSize > size)
        THEN Outcome("Skipped", bytes, None)
        ELSE Outcome("Mutated", buffer_copy(moved, token, 0, off, len), token_idx)

SmartTokenInsertMutate(bytes) ==
    IF Len(tokens_vec) = 0 THEN {Outcome("Skipped", bytes, None)}
    ELSE {TokenInsert(bytes, t, off) : t \in 0..(Len(tokens_vec) - 1),
                                       off \in 0..Len(bytes)}

\* SmartTokenReplace::mutate with the choices off and token_idx
TokenReplace(bytes, token_idx, off) ==
    LET size == Len(bytes)
        token == tokens_vec[token_idx + 1]
        len == IF off + Len(token) > size THEN size - off ELSE Len(token)
    IN  Outcome("Mutated", buffer_copy(bytes, token, 0, off, len), token_idx)

SmartTokenReplaceMutate(bytes) ==
    IF Len(bytes) = 0 \/ Len(tokens_vec) = 0 THEN {Outcome("Skipped", bytes, None)}
    ELSE {TokenReplace(bytes, t, off) : t \in 0..(Len(tokens_vec) - 1),
                                        off \in 0..(Len(bytes) - 1)}

\* get_and_mutate(idx, ..): the outcomes of the operator at idx
GetAndMutate(idx, bytes) ==
    CASE sched.mutations[idx + 1] = "SmartTokenInsert" -> SmartTokenInsertMutate(bytes)
      [] sched.mutations[idx + 1] = "SmartTokenReplace" -> SmartTokenReplaceMutate(bytes)
      [] OTHER -> HavocMutate(bytes)

RoundIdle(n) ==
    [pc |-> "idle", use_token |-> FALSE, iterations |-> 0, r |-> "Skipped",
     corpus_id |-> None, n |-> n]

NotApplied == [idx |-> None, phase |-> "none"]

\* the scheduler of a state whose dictionary holds the first tokens of
\* SchedTokens
SchedInit ==
    /\ \E mutations \in SchedTuples :
          sched = [mutations |-> mutations,
                   token_indices |-> identify_token_mutations(mutations),
                   last_token_used |-> None]
    /\ last_token_idx = [k \in DOMAIN sched.mutations |-> None]
    /\ round = RoundIdle(0)
    /\ sched_input = <<>>
    /\ last_applied = NotApplied
    /\ written = {}
    /\ forwarded = {}
    /\ pending = [k \in DOMAIN sched.mutations |-> None]
    /\ max_tokens = MaxCapacity
    /\ \E n \in 0..Min(MaxCapacity, Len(SchedTokens)) :
          /\ tokens_vec = SubSeq(SchedTokens, 1, n)
          /\ tokens_set = Range(SubSeq(SchedTokens, 1, n))
          /\ stats = [k \in 1..n |-> TokenStatDefault]
          /\ call = IF n = 0 THEN [op |-> "with_capacity", arg |-> <<>>, ret |-> None]
                    ELSE [op |-> "add_token", arg |-> SchedTokens[n], ret |-> n - 1]
    /\ protected_idx = None
    /\ pinned = None

\* record_token_use that leaves the protected index of the dictionary alone
record_token_use_unprotected(idx, prot) == prot

\* record_token_use(idx, ..): the protected index after protect_index(idx)
record_token_use(idx, prot) == idx

\* the effect of one get_and_mutate(idx, ..) with outcome o: the input, and
\* for a token operator that wrote a token, record_token_use
ApplyOutcome(idx, o) ==
    /\ sched_input' = o.input
    /\ IF o.token_idx # None
       THEN /\ protected_idx' = record_token_use(o.token_idx, protected_idx)
            /\ pinned' = IF pinned = None THEN o.token_idx ELSE pinned
            /\ call' = [op |-> "protect_index", arg |-> <<>>, ret |-> None]
            /\ last_token_idx' = [last_token_idx EXCEPT ![idx + 1] = o.token_idx]
            /\ written' = written \cup {o.token_idx}
            /\ pending' = [pending EXCEPT ![idx + 1] = o.token_idx]
       ELSE UNCHANGED <<protected_idx, pinned, call, last_token_idx, written, pending>>
    /\ UNCHANGED <<tokens_vec, tokens_set, stats, max_tokens>>

\* mutate returns r to the stage: Skipped ends the round without an execution
MutateReturn(rnd) ==
    IF rnd.r = "Skipped" THEN RoundIdle(rnd.n + 1)
    ELSE [rnd EXCEPT !.pc = "evaluate"]

\* mutate, lines 115-128: the iteration count and the use_token decision, on
\* a fresh copy of a corpus input
MutateBegin(bytes, base_iterations, use_token) ==
    /\ round.pc = "idle"
    /\ round.n < SchedMaxRounds
    /\ use_token => sched.token_indices # {}
    /\ round' = [round EXCEPT
                    !.pc = "stack", !.use_token = use_token, !.r = "Skipped",
                    !.corpus_id = None,
                    !.iterations = IF use_token THEN Max(base_iterations \div 2, 1)
                                   ELSE base_iterations]
    /\ sched' = [sched EXCEPT !.last_token_used = None]
    /\ sched_input' = bytes
    /\ last_applied' = NotApplied
    /\ written' = {}
    /\ forwarded' = {}
    /\ UNCHANGED <<last_token_idx, pending, dictVars>>
    /\ UNCHANGED notSched

\* mutate, lines 131-142: one stacked mutation
MutateStack ==
    /\ round.pc = "stack"
    /\ \E idx \in (IF round.use_token
                    THEN schedule_non_token(sched.mutations, sched.token_indices)
                    ELSE schedule(sched.mutations)) :
       \E o \in GetAndMutate(idx, sched_input) :
          /\ ApplyOutcome(idx, o)
          /\ last_applied' = [idx |-> idx, phase |-> "stack"]
          /\ LET rnd == [round EXCEPT
                            !.iterations = @ - 1,
                            !.r = IF o.result = "Mutated" THEN "Mutated" ELSE @]
             IN  round' = IF rnd.iterations > 0 THEN rnd
                          ELSE IF rnd.use_token THEN [rnd EXCEPT !.pc = "final"]
                          ELSE MutateReturn(rnd)
    /\ UNCHANGED <<sched, forwarded>>
    /\ UNCHANGED notSched

\* mutate, lines 145-154: the token mutation applied last
MutateFinal ==
    /\ round.pc = "final"
    /\ \E token_idx \in sched.token_indices :
       \E o \in GetAndMutate(token_idx, sched_input) :
          /\ ApplyOutcome(token_idx, o)
          /\ last_applied' = [idx |-> token_idx, phase |-> "final"]
          /\ sched' = IF o.result = "Mutated"
                      THEN [sched EXCEPT !.last_token_used = token_idx]
                      ELSE sched
          /\ round' = MutateReturn([round EXCEPT
                            !.r = IF o.result = "Mutated" THEN "Mutated" ELSE @])
    /\ UNCHANGED forwarded
    /\ UNCHANGED notSched

\* the stage runs the mutated input; corpus_id is Some(0) when the input is
\* added to the corpus
Evaluate(corpus_id) ==
    /\ round.pc = "evaluate"
    /\ round' = [round EXCEPT !.pc = "post_exec", !.corpus_id = corpus_id]
    /\ UNCHANGED <<sched, last_token_idx, sched_input, last_applied, written, forwarded,
                   pending, dictVars>>
    /\ UNCHANGED notSched

\* SmartToken::post_exec of an operator whose last_token_idx is lti, on the
\* stats and the protected index of the dictionary: the new stats, protected
\* index and last_token_idx
smart_token_post_exec_keeps_idx(st, prot, lti, corpus_id) ==
    IF lti # None
    THEN [stats |-> update_stats(st, lti, corpus_id # None),
          protected_idx |-> None, last_token_idx |-> lti]
    ELSE [stats |-> st, protected_idx |-> prot, last_token_idx |-> lti]

smart_token_post_exec(st, prot, lti, corpus_id) ==
    IF lti # None
    THEN [stats |-> update_stats(st, lti, corpus_id # None),
          protected_idx |-> None, last_token_idx |-> None]
    ELSE [stats |-> st, protected_idx |-> prot, last_token_idx |-> lti]

\* post_exec of the wrapped operator at idx: SmartToken::post_exec for the
\* token operators, the default no-op for the others
get_and_post_exec(idx, d, corpus_id) ==
    IF sched.mutations[idx + 1] \in {"SmartTokenInsert", "SmartTokenReplace"}
    THEN LET r == smart_token_post_exec(d.stats, d.protected_idx,
                                        d.last_token_idx[idx + 1], corpus_id)
         IN  [stats |-> r.stats, protected_idx |-> r.protected_idx,
              last_token_idx |-> [d.last_token_idx EXCEPT ![idx + 1] = r.last_token_idx]]
    ELSE d

\* get_and_post_exec for the operators of targets, in index order
RECURSIVE post_exec_each(_, _, _)
post_exec_each(targets, d, corpus_id) ==
    IF targets = {} THEN d
    ELSE LET idx == CHOOSE i \in targets : \A j \in targets : i <= j
         IN  post_exec_each(targets \ {idx}, get_and_post_exec(idx, d, corpus_id),
                            corpus_id)

\* a scheduler post_exec that calls post_exec on every wrapped operator
post_exec_targets_all(s) == 0..(Len(s.mutations) - 1)

\* the operators TokenPreservingScheduledMutator::post_exec calls post_exec on
post_exec_targets(s) ==
    IF s.last_token_used # None THEN {s.last_token_used} ELSE {}

\* TokenPreservingScheduledMutator::post_exec and the post_exec calls it
\* forwards
PostExec ==
    /\ round.pc = "post_exec"
    /\ LET targets == post_exec_targets(sched)
           d == [stats |-> stats, protected_idx |-> protected_idx,
                 last_token_idx |-> last_token_idx]
           r == post_exec_each(targets, d, round.corpus_id)
       IN  /\ forwarded' = targets
           /\ stats' = r.stats
           /\ protected_idx' = r.protected_idx
           /\ last_token_idx' = r.last_token_idx
           /\ pending' = [k \in DOMAIN pending |->
                            IF k - 1 \in targets THEN None ELSE pending[k]]
           /\ IF r.last_token_idx # last_token_idx \/ r.stats # stats
              THEN /\ pinned' = None
                   /\ call' = [op |-> "update_stats", arg |-> <<>>, ret |-> None]
              ELSE UNCHANGED <<pinned, call>>
    /\ sched' = [sched EXCEPT !.last_token_used = None]
    /\ round' = RoundIdle(round.n + 1)
    /\ UNCHANGED <<tokens_vec, tokens_set, max_tokens, sched_input, last_applied, written>>
    /\ UNCHANGED notSched

SchedNext ==
    \/ \E bytes \in SchedInputs, base_iterations \in Iterations, use_token \in BOOLEAN :
          MutateBegin(bytes, base_iterations, use_token)
    \/ MutateStack
    \/ MutateFinal
    \/ \E corpus_id \in {None, 0} : Evaluate(corpus_id)
    \/ PostExec

\* mutate of the wrapped token operator at idx, called directly on a corpus
\* input
OpMutate(idx, bytes) ==
    /\ round.n < MaxOpCalls
    /\ \E o \in GetAndMutate(idx, bytes) :
          /\ ApplyOutcome(idx, o)
          /\ last_applied' = [idx |-> idx, phase |-> "mutate"]
          /\ round' = [round EXCEPT !.r = o.result, !.n = @ + 1]
    /\ UNCHANGED <<sched, forwarded>>
    /\ UNCHANGED notSched

\* post_exec(corpus_id) of the wrapped token operator at idx, called directly
OpPostExec(idx, corpus_id) ==
    /\ round.n < MaxOpCalls
    /\ LET d == [stats |-> stats, protected_idx |-> protected_idx,
                 last_token_idx |-> last_token_idx]
           r == get_and_post_exec(idx, d, corpus_id)
       IN  /\ stats' = r.stats
           /\ protected_idx' = r.protected_idx
           /\ last_token_idx' = r.last_token_idx
           /\ IF r.last_token_idx # last_token_idx \/ r.stats # stats
              THEN /\ pinned' = None
                   /\ call' = [op |-> "update_stats", arg |-> <<>>, ret |-> None]
              ELSE UNCHANGED <<pinned, call>>
    /\ pending' = [pending EXCEPT ![idx + 1] = None]
    /\ last_applied' = [idx |-> idx, phase |-> "post_exec"]
    /\ round' = [round EXCEPT !.corpus_id = corpus_id, !.n = @ + 1]
    /\ UNCHANGED <<tokens_vec, tokens_set, max_tokens, sched, sched_input, written,
                   forwarded>>
    /\ UNCHANGED notSched

\* the token operators of the tuple driven without the scheduler
OpsNext ==
    \/ \E idx \in sched.token_indices, bytes \in SchedInputs : OpMutate(idx, bytes)
    \/ \E idx \in sched.token_indices, corpus_id \in {None, 0} :
          OpPostExec(idx, corpus_id)

\* the scheduler of a behaviour that does not use it
SchedParked ==
    /\ sched = [mutations |-> <<>>, token_indices |-> {}, last_token_used |-> None]
    /\ last_token_idx = <<>>
    /\ round = RoundIdle(0)
    /\ sched_input = <<>>
    /\ last_applied = NotApplied
    /\ written = {}
    /\ forwarded = {}
    /\ pending = <<>>

(***************************************************************************)
(* The specifications: one per component; the variables of the other       *)
(* components stay parked.                                                 *)
(***************************************************************************)
\* the dictionary alone
InitDict == DictInit /\ ShmParked /\ SaisParked /\ MdParked /\ SchedParked /\ ExtraParked

SpecDict == InitDict /\ [][DictNext]_vars

SpecBulk == InitDict /\ [][BulkNext]_vars

SpecDiscovery == InitDict /\ [][DiscoveryNext]_vars

\* the token channel alone
InitShm == ShmInit /\ DictParked /\ SaisParked /\ MdParked /\ SchedParked /\ ExtraParked

SpecShm == InitShm /\ [][ShmNext]_vars

\* the channel when a write_tokens call that began runs to its end (it is
\* straight-line code over a bounded loop) and every reader keeps calling
\* read_tokens; the writer need not call write_tokens again
SpecShmLive ==
    /\ InitShm
    /\ [][ShmNext]_vars
    /\ WF_vars(WriterStep)
    /\ \A r \in Readers : WF_vars(ReaderStep(r))

\* the Sais processor alone
InitSais == SaisInit /\ DictParked /\ ShmParked /\ MdParked /\ SchedParked /\ ExtraParked

SpecSais == InitSais /\ [][SaisNext]_vars

\* the mutation-delta extractor alone
InitMd == MdInit /\ DictParked /\ ShmParked /\ SaisParked /\ SchedParked /\ ExtraParked

SpecMd == InitMd /\ [][MdNext]_vars

\* the selection step of Sais alone
InitSel ==
    SelInit /\ DictParked /\ ShmParked /\ SaisParked /\ MdParked /\ SchedParked
        /\ CovParked /\ ProcParked /\ StageParked /\ SearchParked

\* a pipeline processor alone
InitProc ==
    ProcInit /\ DictParked /\ ShmParked /\ SaisParked /\ MdParked /\ SchedParked
        /\ CovParked /\ SelParked /\ StageParked /\ SearchParked

SpecProc == InitProc /\ [][ProcNext]_vars

SpecSel == InitSel /\ [][SelNext]_vars

\* the coverage map observer alone
InitCov ==
    CovInit /\ DictParked /\ ShmParked /\ SaisParked /\ MdParked /\ SchedParked
        /\ SelParked /\ ProcParked /\ StageParked /\ SearchParked

\* the discovery stage and the dictionary of the state
InitStage ==
    DictInit /\ StageInit /\ ShmParked /\ SaisParked /\ MdParked /\ SchedParked
        /\ CovParked /\ SelParked /\ ProcParked /\ SearchParked

\* search_tokens alone
InitSearch ==
    SearchInit /\ DictParked /\ ShmParked /\ SaisParked /\ MdParked /\ SchedParked
        /\ CovParked /\ SelParked /\ ProcParked /\ StageParked

SpecSearch == InitSearch /\ [][SearchNext]_vars

SpecStage == InitStage /\ [][StageNext]_vars

SpecCov == InitCov /\ [][CovNext]_vars

\* the scheduler, the token operators and the dictionary they use
InitSched == SchedInit /\ ShmParked /\ SaisParked /\ MdParked /\ ExtraParked

SpecSched == InitSched /\ [][SchedNext]_vars

SpecOps == InitSched /\ [][OpsNext]_vars


(***************************************************************************)
(* Claims about the token channel (checked under SpecShm).                 *)
(***************************************************************************)
\* C3: every read_tokens that returns Some(tokens) loaded the same even seq
\* value before and after copying, and tokens is exactly the frame that the
\* completed write_tokens call numbered seq / 2 published.
C3_Seqlock ==
    \A r \in DOMAIN rd_ret :
        rd_ret[r].some =>
            /\ rd_ret[r].seq1 = rd_ret[r].seq2
            /\ rd_ret[r].seq1 % 2 = 0
            /\ rd_ret[r].seq1 \div 2 \in 1..Len(frames)
            /\ rd_ret[r].tokens = frames[rd_ret[r].seq1 \div 2]

\* a reader returned the two tokens of the second publication
C3_Witness ==
    \E r \in DOMAIN rd_ret :
        /\ rd_ret[r].some
        /\ rd_ret[r].seq1 = 4
        /\ Len(rd_ret[r].tokens) = 2
        /\ Len(frames[1]) = 1

(***************************************************************************)
(* Claims about the Sais processor (checked under SpecSais).               *)
(***************************************************************************)
\* origin[p]: the index of the input that byte p of the concatenation is from
Origin(p) == sais_text.input_id[p + 1]

\* the candidate pushed k-th is among the tokens process returned
IsOutput(k) == sais_ret.some /\ sais_scan.candidates[k].token \in sais_ret.tokens

\* every token output was sliced from an occurrence inside one input
OutputInsideOneInput ==
    \A k \in DOMAIN sais_emitted :
        IsOutput(k) =>
            Origin(sais_emitted[k].pos)
                = Origin(sais_emitted[k].pos + sais_emitted[k].len - 1)

\* ["foo", "bar", "foobar"] with min_len 6, max_len 16, Threshold(0.5)
\* gives no token
GuardCorpusNoToken ==
    (/\ sais_inputs = CorpusGuard
     /\ sais = [min_len |-> 6, max_len |-> 16, mode |-> Threshold(1, 2)])
        => ~sais_ret.some

\* C4: every token output by the Sais processor lies inside one input: the
\* occurrence concat[p..p+len] used for emission has origin[p] =
\* origin[p+len-1]; the corpus ["foo", "bar", "foobar"] produces no token.
C4_BoundarySafety ==
    sais_scan.pc = "done" => (OutputInsideOneInput /\ GuardCorpusNoToken)

\* the number of corpus entries b occurs in
Support(b) == Cardinality({e \in DOMAIN sais_inputs : Occurs(b, sais_inputs[e])})

\* the nonempty substrings of e
Substrings(e) ==
    {Slice(e, a, b) : a \in 0..(Len(e) - 1), b \in 1..Len(e)} \ {<<>>}

\* the byte strings that occur in every input of a nonempty corpus
CommonSubstrings ==
    {b \in Substrings(sais_inputs[1]) : Support(b) = Len(sais_inputs)}

\* b is common to all inputs and no string one byte longer that contains it is
IsMaximalCommon(b) ==
    /\ b \in CommonSubstrings
    /\ \A c \in CommonSubstrings :
          Len(c) = Len(b) + 1 =>
              /\ SubSeq(c, 1, Len(b)) # b
              /\ SubSeq(c, 2, Len(c)) # b

\* C5: a byte string b with min_len <= |b| <= max_len that occurs inside
\* every one of the N >= 2 inputs and is a maximal common substring is output
\* by the Sais processor with Threshold(1.0) (its candidate has support N).
C5_Completeness ==
    (/\ sais_scan.pc = "done"
     /\ sais.mode = Threshold(1, 1)
     /\ Len(sais_inputs) >= 2)
        => \A b \in CommonSubstrings :
              (IsMaximalCommon(b) /\ sais.min_len <= Len(b) /\ Len(b) <= sais.max_len)
                  => (sais_ret.some /\ b \in sais_ret.tokens)

\* C6: for every candidate (bytes, k) the stack scan emits, bytes occurs as a
\* contiguous substring of at least k distinct corpus entries.
C6_Soundness ==
    \A k \in DOMAIN sais_scan.candidates :
        Support(sais_scan.candidates[k].token) >= sais_scan.candidates[k].count

(***************************************************************************)
(* Claims about the mutation-delta extractor (checked under SpecMd).       *)
(***************************************************************************)
\* the positions L at which b occurs in e (e[L..L+|b|] = b)
Occurrences(b, e) ==
    {a \in 0..(Len(e) - Len(b)) : \A k \in 1..Len(b) : e[a + k] = b[k]}

\* the case of the isolation claim: a target that tells whether the input
\* contains M and whose executions all succeeded, a parent without M, a child
\* with M at exactly one place L, and min_token_length <= |M| <= max_token_length
IsolationCase(L) ==
    /\ md_target.kind = "substring"
    /\ ~md.failed
    /\ ~Occurs(md_target.m, md_parent)
    /\ Occurrences(md_target.m, md_child) = {L}
    /\ md_cfg.min_token_length <= Len(md_target.m)
    /\ Len(md_target.m) <= md_cfg.max_token_length

\* extract returned Some([M]) with bounds (L, L + |M|)
Isolated(L) ==
    /\ md_ret = MdSome(md_target.m)
    /\ md.left_bound = L
    /\ md.right_bound = L + Len(md_target.m)

\* C7 (as stated): for a target whose fingerprint depends only on whether the
\* input contains M, a parent without M and a child with M exactly at
\* C[L..R], extract returns Some([M]) with bounds (L, R), whatever the random
\* bytes.
C7_Isolation ==
    \A L \in 0..Len(md_child) :
        (md.pc = "done" /\ IsolationCase(L)) => Isolated(L)

\* C7 (amended): the same when, in addition, no byte value of M occurs in the
\* parent and L is a position of the parent (L < |P|).
C7_IsolationDisjointParent ==
    \A L \in 0..Len(md_child) :
        (/\ md.pc = "done"
         /\ IsolationCase(L)
         /\ Range(md_target.m) \cap Range(md_parent) = {}
         /\ L < Len(md_parent))
            => Isolated(L)

\* "MAGIC" isolated from "aaaaaaaa" and "aaMAGICaa" with L = 2, R = 7
C7_Witness ==
    /\ md.pc = "done"
    /\ md_parent = ParentA
    /\ md_child = ChildMagic
    /\ IsolationCase(2)
    /\ Range(md_target.m) \cap Range(md_parent) = {}
    /\ md_ret = MdSome(Magic)
    /\ md.left_bound = 2
    /\ md.right_bound = 7

(***************************************************************************)
(* Claims about the scheduler and the token operators (checked under       *)
(* SpecSched).                                                             *)
(***************************************************************************)
\* the final mutation of a round is a token operator, and in a use_token
\* round it is the last mutation applied before the input is executed
FinalIsToken ==
    /\ last_applied.phase = "final" => last_applied.idx \in sched.token_indices
    /\ (round.use_token /\ round.pc \in {"evaluate", "post_exec"})
            => last_applied.phase = "final"

\* C8 (as stated): in every round marked use_token each stacked mutation is
\* drawn from the havoc (non-token) set and the final mutation is drawn from
\* the token set, so no mutation is applied after the token operator.
C8_TokenLast ==
    /\ (round.use_token /\ last_applied.phase = "stack")
            => last_applied.idx \notin sched.token_indices
    /\ FinalIsToken

\* C8 (amended): the same for a scheduler whose havoc set is nonempty; of a
\* scheduler that wraps token operators only, the stacked mutations are token
\* operators too.
C8_TokenLastWithHavoc ==
    /\ (/\ round.use_token
        /\ last_applied.phase = "stack"
        /\ Cardinality(sched.token_indices) < Len(sched.mutations))
            => last_applied.idx \notin sched.token_indices
    /\ FinalIsToken

\* a use_token round of a scheduler with both sets, mutated and about to be
\* executed, whose final token operator wrote a token
C8_Witness ==
    /\ round.use_token
    /\ round.pc = "evaluate"
    /\ last_applied.phase = "final"
    /\ sched.last_token_used = last_applied.idx
    /\ written # {}
    /\ Cardinality(sched.token_indices) < Len(sched.mutations)
    /\ 0 \in Range(sched_input)

\* C9: for every executed input of a round in which a token operator wrote a
\* dictionary token, post_exec increments that token's uses, and its successes
\* only when the execution produced a corpus entry, whether or not the round
\* was marked use_token.
C9_StatsLifecycle ==
    [][(round.pc = "post_exec" /\ round'.pc = "idle")
            => \A t \in written :
                  /\ stats'[t + 1].uses = stats[t + 1].uses + 1
                  /\ stats'[t + 1].successes # stats[t + 1].successes
                        => round.corpus_id # None]_vars

\* C33: when the scheduler's post_exec returns for a round, the dictionary
\* has no protected index, whether or not the round was marked use_token and
\* whatever the operators applied in it reported
C33_NoProtectionLeak ==
    [][(round.pc = "post_exec" /\ round'.pc = "idle") => protected_idx' = None]_vars

(***************************************************************************)
(* Claims about the token dictionary (checked under SpecDict).             *)
(***************************************************************************)
\* an add_token call that overwrote a slot of the full dictionary
Evicted ==
    /\ call.op = "add_token"
    /\ call.ret # None
    /\ Len(tokens_vec) = max_tokens
    /\ call.ret + 1 < Len(tokens_vec)

\* slot idx holds the same token with the same stats after the step
SlotKept(idx) ==
    /\ Len(tokens_vec') > idx
    /\ tokens_vec'[idx + 1] = tokens_vec[idx + 1]
    /\ stats'[idx + 1] = stats[idx + 1]
    /\ tokens_vec[idx + 1] \in tokens_set'

\* C1: after any sequence of add_token, update_stats, protect_index and
\* unprotect calls the number of stored tokens is at most max_tokens.
C1_Capacity == Len(tokens_vec) <= max_tokens

C1_Witness == Evicted /\ call.arg \in tokens_set

\* C2 (as stated): from a protect_index(idx) call until the next unprotect(),
\* no add_token call changes the token or the stats of slot idx.
C2_PinnedSlotKept ==
    [][(call'.op = "add_token" /\ pinned # None /\ pinned < Len(tokens_vec))
            => SlotKept(pinned)]_vars

\* C2 (amended): while idx is the protected index (from protect_index(idx)
\* until the next unprotect() or the next protect_index call, which moves the
\* single protection), no add_token call changes the token or the stats of
\* slot idx.
C2_ProtectedSlotKept ==
    [][(call'.op = "add_token" /\ protected_idx # None
            /\ protected_idx < Len(tokens_vec))
            => SlotKept(protected_idx)]_vars

C2_Witness ==
    /\ Evicted
    /\ protected_idx # None
    /\ protected_idx < Len(tokens_vec)
    /\ stats[protected_idx + 1].uses > 1

\* the entries eviction may choose from
EvictionCandidates(st, prot) ==
    {i \in 0..(Len(st) - 1) : i # prot /\ st[i + 1].uses > 0}

\* entry i has the minimum successes/uses ratio among the entries of C
IsMinRatio(st, C, i) ==
    \A j \in C : st[i + 1].successes * st[j + 1].uses
                    <= st[j + 1].successes * st[i + 1].uses

\* the lowest index among the candidates of minimum ratio
Victim(st, prot) ==
    LET C == EvictionCandidates(st, prot)
    IN  CHOOSE i \in C : /\ IsMinRatio(st, C, i)
                         /\ \A j \in C : IsMinRatio(st, C, j) => i <= j

\* C10: add_token of a token not present into a full dictionary overwrites
\* the lowest-index slot among the non-protected entries with uses > 0 of
\* minimum successes/uses ratio; that slot gets the token with stats (1,1),
\* its index is returned and every other slot is unchanged.
C10_EvictionPolicy ==
    [][(/\ call'.op = "add_token"
        /\ call'.arg \notin tokens_set
        /\ Len(tokens_vec) >= max_tokens
        /\ EvictionCandidates(stats, protected_idx) # {})
        => LET v == Victim(stats, protected_idx)
           IN  /\ call'.ret = v
               /\ tokens_vec' = [tokens_vec EXCEPT ![v + 1] = call'.arg]
               /\ stats' = [stats EXCEPT ![v + 1] = TokenStatDefault]
               /\ tokens_set' = Range(tokens_vec')]_vars

C10_Witness ==
    /\ call.op = "add_token"
    /\ call.ret = 0
    /\ Len(tokens_vec) = max_tokens
    /\ max_tokens >= 2
    /\ protected_idx = None
    /\ stats[2].uses > 1

\* C11: in every reachable state of the dictionary the membership set is the
\* set of the elements of the token list, the list holds no token twice and
\* the stats list is as long as the token list.
C11_Consistency ==
    /\ tokens_set = Range(tokens_vec)
    /\ \A i, j \in DOMAIN tokens_vec : tokens_vec[i] = tokens_vec[j] => i = j
    /\ Len(stats) = Len(tokens_vec)

\* an evicting add into a dictionary whose stats were updated before
C11_Witness ==
    /\ Evicted
    /\ call.ret = 0
    /\ stats[2].uses > 1
    /\ tokens_vec[1] = call.arg

\* C12: add_token of a token that is already in the dictionary returns None
\* and leaves the token list, the membership set, the stats and the protected
\* index unchanged, whether or not the dictionary is full.
C12_DuplicateRejected ==
    [][(call'.op = "add_token" /\ call'.arg \in Range(tokens_vec))
            => /\ call'.ret = None
               /\ UNCHANGED <<tokens_vec, tokens_set, stats, protected_idx>>]_vars

\* a duplicate was offered to a full dictionary that had a slot to evict
C12_Witness ==
    /\ call.op = "add_token"
    /\ call.ret = None
    /\ call.arg \in Range(tokens_vec)
    /\ Len(tokens_vec) = max_tokens
    /\ find_eviction_index(stats, protected_idx) # None

\* the dictionary after add_tokens(T) on the current state
AfterBulkAdd(T) == add_tokens(Dict, max_tokens, protected_idx, T)

\* C13: for every dictionary state, full ones included, and every token list
\* T, adding the tokens of T in order and then adding them again leaves the
\* dictionary (tokens, slots and stats) as adding T once leaves it.
C13_BulkAddIdempotent ==
    \A T \in TokenLists :
        add_tokens(AfterBulkAdd(T), max_tokens, protected_idx, T) = AfterBulkAdd(T)

\* a step that ingests a discovered token: an add_token call, or the stage's
\* add_token keeping the token away from the dictionary
Ingests == call'.op \in {"add_token", "can_add"}

\* C14 (as stated): ingesting a discovered token never removes or replaces a
\* token that was in the dictionary before and never changes its stats.
C14_Additive ==
    [][Ingests => \A i \in 0..(Len(tokens_vec) - 1) : SlotKept(i)]_vars

\* C14 (amended): ingesting a discovered token into a dictionary that holds
\* fewer than max_tokens tokens removes and changes nothing; into a full
\* dictionary it changes at most the one slot whose index add_token returns,
\* which is never the protected slot, and no token or stats of another slot.
C14_AdditiveUpToEviction ==
    [][Ingests =>
        \A i \in 0..(Len(tokens_vec) - 1) :
            (\/ Len(tokens_vec) < max_tokens
             \/ i # call'.ret
             \/ i = protected_idx) => SlotKept(i)]_vars

\* a discovered token was ingested into a full dictionary by evicting slot 0
\* while slot 1 kept its updated stats
C14_Witness ==
    /\ call.op = "add_token"
    /\ call.ret = 0
    /\ Len(tokens_vec) = max_tokens
    /\ max_tokens >= 2
    /\ tokens_vec[1] = call.arg
    /\ stats[2].uses > 1

(***************************************************************************)
(* Claims about the scheduler's post_exec (checked under SpecSched).        *)
(***************************************************************************)
\* C16: the scheduler's post_exec calls post_exec on at most one wrapped
\* operator, namely the token operator applied as the final mutation of the
\* preceding round; on none when the round applied no final token mutation;
\* never on a havoc operator.
C16_Forwarding ==
    /\ Cardinality(forwarded) <= 1
    /\ \A i \in forwarded :
          /\ last_applied = [idx |-> i, phase |-> "final"]
          /\ NameContainsToken(sched.mutations[i + 1])
    /\ last_applied.phase # "final" => forwarded = {}

\* post_exec forwarded to the final token operator of a scheduler that also
\* wraps a havoc operator, and that operator updated the stats of its token
C16_Witness ==
    /\ round.pc = "idle"
    /\ forwarded # {}
    /\ Cardinality(sched.token_indices) < Len(sched.mutations)
    /\ \E t \in written : stats[t + 1].uses > 1

\* the indices of the stored tokens that are not the protected one
Unprotected == {i \in 0..(Len(tokens_vec) - 1) : i # protected_idx}

\* C34: add_token of a token that is not stored, on a full dictionary:
\* when some entry is not protected it returns Some(index) of such an entry
\* and stores the token there with the default stats, whatever the success
\* rates; it rejects the token only when no entry is unprotected (the sole
\* entry is the protected one, or the capacity is 0)
C34_EvictionFindsVictim ==
    [][(/\ call'.op = "add_token"
        /\ call'.arg \notin tokens_set
        /\ Len(tokens_vec) = max_tokens) =>
           IF Unprotected # {}
           THEN /\ call'.ret \in Unprotected
                /\ tokens_vec' = [tokens_vec EXCEPT ![call'.ret + 1] = call'.arg]
                /\ stats' = [stats EXCEPT ![call'.ret + 1] = TokenStatDefault]
                /\ call'.arg \in tokens_set'
           ELSE /\ call'.ret = None
                /\ UNCHANGED <<tokens_vec, tokens_set, stats>>
                /\ max_tokens = 0 \/ (Len(tokens_vec) = 1 /\ protected_idx = 0)]_vars

\* an eviction from a full dictionary in which every entry has success rate
\* 1.0, one of them after a recorded success, and one entry is protected
C34_Witness ==
    /\ Evicted
    /\ protected_idx # None /\ protected_idx < Len(tokens_vec)
    /\ \A k \in DOMAIN stats : stats[k].successes = stats[k].uses
    /\ \E k \in DOMAIN stats : stats[k].uses > 1

\* C35: every entry of the dictionary has 1 <= successes <= uses, so its
\* success rate is above 0 and at most 1.0, and the scan of
\* find_eviction_index over a dictionary with an unprotected entry ends with
\* a worst_rate of at most 1.0: its `worst_rate > 1.0` rejection is not taken
C35_StatBounds ==
    /\ \A k \in DOMAIN stats :
          /\ 1 <= stats[k].successes
          /\ stats[k].successes <= stats[k].uses
          /\ RateLt([num |-> 0, den |-> 1], Rate(stats[k]))
          /\ ~RateLt(RateOne, Rate(stats[k]))
    /\ Unprotected # {} =>
          ~RateLt(RateOne, EvictScan(stats, protected_idx, 0, 0, F64_MAX).rate)

\* a full dictionary with a protected entry, an entry that was used without
\* success and an entry that was used with success
C35_Witness ==
    /\ Len(tokens_vec) = max_tokens
    /\ protected_idx # None /\ protected_idx < Len(tokens_vec)
    /\ Unprotected # {}
    /\ \E k \in DOMAIN stats : stats[k].successes < stats[k].uses
    /\ \E k \in DOMAIN stats : stats[k].successes > 1

(***************************************************************************)
(* Claims about the token operators (checked under SpecOps).               *)
(***************************************************************************)
\* the step is post_exec(corpus_id) of the operator at op
IsOpPostExec(op) == last_applied' = [idx |-> op, phase |-> "post_exec"]

C17_TokenInsertResult ==
    \A token_idx \in 0..(Len(tokens_vec) - 1), o \in 0..Len(sched_input) :
        LET X == sched_input
            t == tokens_vec[token_idx + 1]
            len == Min(Len(t), SchedMaxSize - Len(X))
            r == TokenInsert(X, token_idx, o)
        IN  IF len = 0
            THEN r = Outcome("Skipped", X, None)
            ELSE /\ r.result = "Mutated"
                 /\ r.token_idx = token_idx
                 /\ r.input = Slice(X, 0, o) \o Slice(t, 0, len) \o Slice(X, o, Len(X))
                 /\ Len(r.input) = Len(X) + len
                 /\ Len(r.input) <= SchedMaxSize

\* SmartTokenInsert put the first byte of the two-byte token [1, 2] in front
\* of the last byte of an input that had room for one byte only
C17_Witness ==
    /\ last_applied.phase = "mutate"
    /\ sched.mutations[last_applied.idx + 1] = "SmartTokenInsert"
    /\ round.r = "Mutated"
    /\ pending[last_applied.idx + 1] = 1
    /\ tokens_vec[2] = <<1, 2>>
    /\ Len(sched_input) = SchedMaxSize
    /\ sched_input[Len(sched_input) - 1] = 1
    /\ sched_input[Len(sched_input)] = 0

(***************************************************************************)
(* Claims about write_tokens and read_tokens as a pair (checked under      *)
(* SpecShm).                                                               *)
(***************************************************************************)
\* the bytes the records of the token list ts take in the data area
RECURSIVE RecordsSize(_)
RecordsSize(ts) == IF ts = <<>> THEN 0 ELSE 2 + Len(Head(ts)) + RecordsSize(Tail(ts))

\* the token list fits in the region
Fits(ts) == RecordsSize(ts) <= max_data

\* the longest prefix of ts whose records fit in the data area
FittingPrefix(ts) ==
    LET n == CHOOSE n \in 0..Len(ts) :
                /\ Fits(SubSeq(ts, 1, n))
                /\ \A m \in (n + 1)..Len(ts) : ~Fits(SubSeq(ts, 1, m))
    IN  SubSeq(ts, 1, n)

\* read_tokens of reader r returns None at its first check in this step
ReturnsNoneAtOnce(r) ==
    rd[r].pc = "idle" /\ rd'[r].pc = "idle" /\ rd_ret'[r] # rd_ret[r]

\* read_tokens of reader r passes its first check in this step
PassesFirstCheck(r) == rd[r].pc = "idle" /\ rd'[r].pc # "idle"

\* read_tokens of reader r returns in this step and no write_tokens call was
\* in progress at any time since the call began
ReturnsUndisturbed(r) ==
    rd[r].pc = "seq2" /\ rd'[r].pc = "idle" /\ shm_seq = rd[r].seq1

\* C18: once write_tokens(ts) has completed for a list ts that fits in the
\* region, a read_tokens call with no write concurrent to it returns Some(ts),
\* the same tokens in the same order, when it is the reader's first call since
\* that write, and None when the reader was given the frame before.
C18_RoundTrip ==
    [][\A r \in Readers :
        /\ ReturnsNoneAtOnce(r) => (wr.pc # "idle" \/ Len(frames) = delivered[r])
        /\ PassesFirstCheck(r) => (wr.pc = "idle" /\ Len(frames) > delivered[r])
        /\ ReturnsUndisturbed(r) =>
                /\ rd_ret'[r].some
                /\ delivered'[r] = Len(write_calls)
                /\ Fits(write_calls[Len(write_calls)])
                        => rd_ret'[r].tokens = write_calls[Len(write_calls)]]_vars

\* a reader was given the two tokens of a list that fills the data area, read
\* again and got None
C18_Witness ==
    \E r \in Readers :
        /\ delivered[r] >= 1
        /\ write_calls[delivered[r]] = <<<<2>>, <<1>>>>
        /\ frames[delivered[r]] = <<<<2>>, <<1>>>>
        /\ Len(frames) = delivered[r]
        /\ wr.pc = "idle"
        /\ rd[r].pc = "idle"
        /\ rd_ret[r] = [RetNone EXCEPT !.seq1 = shm_seq]

\* C19: when the records of the tokens passed to write_tokens do not all fit
\* in the data area, the published frame is the longest prefix of the list
\* whose records fit, count is the number of records written, and a reader of
\* the frame returns exactly that prefix.
C19_OverflowTruncation ==
    /\ \A k \in 1..Len(frames) : frames[k] = FittingPrefix(write_calls[k])
    /\ (wr.pc = "idle" /\ frames # <<>>)
            => shm_count = Len(FittingPrefix(write_calls[Len(frames)]))
    /\ \A r \in DOMAIN rd_ret :
            rd_ret[r].some
                => rd_ret[r].tokens = FittingPrefix(write_calls[rd_ret[r].seq1 \div 2])

\* a reader returned the one token that was published of a list of three
C19_Witness ==
    \E r \in DOMAIN rd_ret :
        /\ rd_ret[r].some
        /\ Len(write_calls[rd_ret[r].seq1 \div 2]) = 3
        /\ rd_ret[r].tokens = <<<<1, 2>>>>
        /\ shm_count = 1

C21_CostBound ==
    md.runs <= 2 + Len(md_child) + 2 * md_cfg.max_token_length

\* a finished call in which the anchor loop, the extension loop and the left
\* loop all ran the target
C21_Witness ==
    /\ md.pc = "done"
    /\ ~md.failed
    /\ md_ret.some
    /\ md.left_bound > 0
    /\ md.runs = 2 + Len(md_child) + md_cfg.max_token_length
    /\ md.runs > 2 + md.right_bound

\* C22: when a lookup of the current testcase, of its input or of its parent
\* yields nothing, or when a target execution or an observer lookup fails at
\* any step, extract returns None: it neither panics nor returns a token
C22_TransientErrors ==
    /\ md.failed => md.pc = "done" /\ md_ret = MdNone
    /\ md_missing # "none" => md.pc \in {"load", "done"} /\ md.runs = 0 /\ md_ret = MdNone

\* an execution failed inside one of the three loops, after both
\* fingerprints were computed
C22_Witness ==
    /\ md.pc = "done"
    /\ md.failed
    /\ md.runs > 3
    /\ md_ret = MdNone

(***************************************************************************)
(* Claim on the coverage map observer                                      *)
(***************************************************************************)
\* C23: every execution of the target by a mutation-delta get_coverage
\* comes directly after a reset of the coverage map, and the map is read
\* before the next execution
C23_ResetOrdering ==
    \A k \in 1..Len(cov_log) :
        cov_log[k].op = "run" =>
            /\ k > 1
            /\ cov_log[k - 1].op = "reset"
            /\ \A j \in (k + 1)..Len(cov_log) :
                  cov_log[j].op = "run" =>
                      \E r \in (k + 1)..(j - 1) : cov_log[r].op = "read"

(***************************************************************************)
(* Claims on the output of the Sais processor                              *)
(***************************************************************************)
\* C24 as stated: every token output by Sais::process has length at least
\* min_len and at most max_len
C24_LengthBound ==
    sais_ret.some =>
        \A t \in sais_ret.tokens : sais.min_len <= Len(t) /\ Len(t) <= sais.max_len

\* C24: every token output by Sais::process has length at most max_len and
\* at least the smaller of min_len and max_len, hence at least min_len
\* whenever min_len <= max_len
C24_LengthBoundOrdered ==
    sais_ret.some =>
        \A t \in sais_ret.tokens :
            /\ Len(t) <= sais.max_len
            /\ Min(sais.min_len, sais.max_len) <= Len(t)

\* an output with a token of min_len bytes and a token cut to max_len bytes
C24_Witness ==
    /\ sais_scan.pc = "done"
    /\ sais_ret.some
    /\ sais.min_len < sais.max_len
    /\ \E t, u \in sais_ret.tokens : Len(t) = sais.min_len /\ Len(u) = sais.max_len
    /\ \E k \in DOMAIN sais_text.lcp : sais_text.lcp[k] > sais.max_len

\* C25: under Threshold(t) with a corpus of N inputs (t = num/den), the
\* output tokens are the bytes of exactly the candidates whose count is at
\* least t * N, that is at least ceil(t * N); None is returned when there is
\* no such candidate
C25_ThresholdSelection ==
    (sel_ret.pc = "done" /\ sel_mode.kind = "Threshold") =>
        LET c == sel_candidates
            Reaches(k) == c[k].count * sel_mode.den >= sel_mode.num * sel_corpus_size
        IN  /\ \A t \in sel_ret.tokens : \E k \in DOMAIN c : c[k].token = t /\ Reaches(k)
            /\ \A k \in DOMAIN c : Reaches(k) => c[k].token \in sel_ret.tokens
            /\ sel_ret.some = (\E k \in DOMAIN c : Reaches(k))

\* a selection that keeps one candidate and drops another, with a threshold
\* that is no whole number of inputs
C25_Witness ==
    /\ sel_ret.pc = "done"
    /\ sel_mode = Threshold(3, 4)
    /\ sel_corpus_size = 3
    /\ sel_ret.some
    /\ \E k \in DOMAIN sel_candidates :
          /\ sel_candidates[k].count = 2
          /\ sel_candidates[k].token \notin sel_ret.tokens

\* the largest count recorded for the bytes t among the candidates c
Best(c, t) ==
    LET counts == {c[i].count : i \in {i \in DOMAIN c : c[i].token = t}}
    IN  CHOOSE v \in counts : \A w \in counts : w <= v

\* the tokens MinTokenCount(k) is to output for the candidates c, k >= 1: all
\* of them when there are at most k distinct ones, else those whose count
\* is at least the count of the k-th distinct candidate in descending order
KthCut(c, k) ==
    LET T == {c[i].token : i \in DOMAIN c}
        Above(v) == {t \in T : Best(c, t) > v}
        From(v) == {t \in T : Best(c, t) >= v}
    IN  IF Cardinality(T) <= k THEN T
        ELSE LET cut == CHOOSE v \in {Best(c, t) : t \in T} :
                            Cardinality(Above(v)) < k /\ k <= Cardinality(From(v))
             IN  From(cut)

\* C26: MinTokenCount(k), k >= 1, outputs exactly the candidates whose
\* support is at least the support of the k-th candidate in descending order
\* of support after deduplication by bytes (all of them when there are at
\* most k)
C26_TieHandling ==
    (sais_scan.pc = "done" /\ sais_text # NoText /\ sais.mode.kind = "MinTokenCount"
        /\ sais.mode.target >= 1) =>
        sais_ret.tokens = KthCut(sais_scan.candidates, sais.mode.target)

\* C31: MinTokenCount(N) outputs at least min(N, D) distinct tokens when the
\* candidates of the scan hold D distinct byte strings
C31_MinTokenCount ==
    (sais_scan.pc = "done" /\ sais_text # NoText /\ sais.mode.kind = "MinTokenCount") =>
        LET D == Cardinality({sais_scan.candidates[i].token :
                                 i \in DOMAIN sais_scan.candidates})
        IN  Cardinality(sais_ret.tokens) >= Min(sais.mode.target, D)

(***************************************************************************)
(* Claims on the pipeline processors                                       *)
(***************************************************************************)
\* no token occurs twice in the list v
NoDuplicates(v) == \A i, j \in DOMAIN v : v[i] = v[j] => i = j

\* C27: the list a processor returns for a duplicate-free input list holds
\* no token twice
C27_Distinctness ==
    (proc_ret.some /\ NoDuplicates(proc_in)) => NoDuplicates(proc_ret.tokens)

\* the leftmost match of delim in data at or after from, or None
FirstMatch(data, delim, from) ==
    LET at == {i \in from..(Len(data) - Len(delim)) :
                  Slice(data, i, i + Len(delim)) = delim}
    IN  IF at = {} THEN None ELSE CHOOSE i \in at : \A j \in at : i <= j

\* the pieces of data from `from` on that lie between the leftmost
\* non-overlapping matches of delim, the empty ones left out
RECURSIVE Pieces(_, _, _)
Pieces(data, delim, from) ==
    LET p == FirstMatch(data, delim, from)
        piece(a, b) == IF a < b THEN <<Slice(data, a, b)>> ELSE <<>>
    IN  IF p = None THEN piece(from, Len(data))
        ELSE piece(from, p) \o Pieces(data, delim, p + Len(delim))

\* the fragments of data split at delim: data itself when delim is empty or
\* does not occur in it
Fragments(data, delim) ==
    IF delim = <<>> \/ FirstMatch(data, delim, 0) = None THEN <<data>>
    ELSE Pieces(data, delim, 0)

\* the fragments of the list v split at delimiter 1, those split at
\* delimiter 2, and so on
RECURSIVE FragmentsOfAll(_, _)
FragmentsOfAll(v, delimiters) ==
    IF delimiters = <<>> THEN v
    ELSE LET split[k \in 0..Len(v)] ==
                 IF k = 0 THEN <<>> ELSE split[k - 1] \o Fragments(v[k], Head(delimiters))
         IN  FragmentsOfAll(split[Len(v)], Tail(delimiters))

\* C28: SplitAt returns, in order, the fragments of its input tokens split at
\* the leftmost non-overlapping matches of each delimiter in listed order that
\* have at least min_length bytes (None when there is none); an empty
\* delimiter changes nothing, and no returned fragment contains a non-empty
\* configured delimiter
C28_SplitAtContract ==
    (proc.kind = "SplitAt" /\ proc_ret.pc # "call") =>
        LET long == SelectSeq(FragmentsOfAll(proc_in, proc.delimiters),
                              LAMBDA t : Len(t) >= proc.min_length)
            plain == SelectSeq(proc.delimiters, LAMBDA d : d # <<>>)
        IN  /\ proc_ret.pc = "done"
            /\ proc_ret.tokens = long
            /\ proc_ret.some = (long # <<>>)
            /\ FragmentsOfAll(proc_in, proc.delimiters) = FragmentsOfAll(proc_in, plain)
            /\ \A k \in DOMAIN proc_ret.tokens, d \in DOMAIN plain :
                  ~Occurs(plain[d], proc_ret.tokens[k])

\* two different delimiters that both match, a fragment that is returned and
\* one that is dropped for its length
C28_Witness ==
    /\ proc.kind = "SplitAt"
    /\ proc_ret.some
    /\ Len(proc.delimiters) = 2
    /\ proc.delimiters[1] # <<>>
    /\ proc.delimiters[2] # <<>>
    /\ proc.delimiters[1] # proc.delimiters[2]
    /\ \E k \in DOMAIN proc_in : Occurs(proc.delimiters[1], proc_in[k])
    /\ \E k \in DOMAIN proc_in :
          /\ ~Occurs(proc.delimiters[1], proc_in[k])
          /\ Occurs(proc.delimiters[2], proc_in[k])
    /\ Len(proc_ret.tokens) < Len(FragmentsOfAll(proc_in, proc.delimiters))

\* C29: a processor terminates for every input list, lists with empty tokens
\* included, and every parameter setting: it returns Some of a list that is
\* not empty, or None, and never panics
C29_NoCrash ==
    /\ proc_ret.pc # "panic"
    /\ proc_ret.some => proc_ret.tokens # <<>>

(***************************************************************************)
(* Claims about the discovery stage (checked under SpecStage).             *)
(***************************************************************************)
\* the gate of the discovery stage as the invocation that is about to run
\* meets it: the corpus grew since the previous invocation, the incremented
\* call count is a multiple of search_interval, and the corpus has at least
\* min_corpus_size testcases
GateOpen ==
    /\ stage_corpus_size # last_corpus_size
    /\ (stage_executions + 1) % stage_cfg.search_interval = 0
    /\ stage_corpus_size >= stage_cfg.min_corpus_size

\* C30: an invocation of the discovery stage searches for tokens and adds
\* tokens to the dictionary only when the gate is open; every other
\* invocation records the corpus size and leaves the dictionary unchanged
C30_StageGate ==
    [][stage_executions' # stage_executions =>
           /\ last_corpus_size' = stage_corpus_size
           /\ ~GateOpen =>
                  /\ UNCHANGED <<tokens_vec, tokens_set, stats>>
                  /\ ~stage_ret'.ingested
                  /\ stage_ret'.searched = 0]_vars

\* an invocation behind a closed gate has changed the dictionary
C30_Ingested ==
    /\ stage_ret.pc = "done"
    /\ stage_ret.ingested
    /\ stage_corpus_size = last_corpus_size
    /\ tokens_vec # <<>>

(***************************************************************************)
(* Claims about search_tokens (checked under SpecSearch).                  *)
(***************************************************************************)
\* C32: when search_tokens is about to add a token, lower_bound <=
\* upper_bound and upper_bound - lower_bound <= MAXTOKENLENGTH; the
\* subtraction never underflows and the assert on the token length never
\* fails
C32_AssertionValid ==
    /\ search.pc \notin {"assert", "underflow"}
    /\ search.pc = "add" =>
          /\ search.lower_bound <= search.upper_bound
          /\ search.upper_bound - search.lower_bound <= MAXTOKENLENGTH

\* a token of MAXTOKENLENGTH bytes was added, cut out of a test sequence in
\* which the second loop started after index 0
C32_Witness ==
    /\ search.pc = "done"
    /\ search_ret.some
    /\ Len(search_ret.token) = MAXTOKENLENGTH
    /\ search.upper_bound > MAXTOKENLENGTH

(***************************************************************************)
(* Claims on the bounds of MutationDeltaExtractor::extract (checked under  *)
(* SpecMd).                                                                *)
(***************************************************************************)
\* C36: at every step of extract 0 <= left_bound <= right_bound <= |C|,
\* every index used on test_vec and mutated_bytes is within the vector (or
\* is the push position of the first loop), and neither the subtraction nor
\* the slice of the result panics
C36_BoundsSafety ==
    /\ md.pc # "panic"
    /\ 0 <= md.left_bound
    /\ md.left_bound <= md.right_bound
    /\ md.right_bound <= Len(md_child)
    /\ md.pc = "anchor" => md.i < Len(md_child) /\ md.i <= Len(md.test_vec)
    /\ md.pc = "extend" => md.i < Len(md.test_vec) /\ md.i < Len(md_child)
    /\ md.pc = "left" => md.i < Len(md.test_vec) /\ md.i < md.right_bound

\* the left loop at work before the anchor, on a child that is shorter than
\* its parent
C36_Witness ==
    /\ md.pc = "left"
    /\ Len(md_child) < Len(md_parent)
    /\ md.i < md.left_bound

(***************************************************************************)
(* Claims about delivery over the token channel (checked under             *)
(* SpecShmLive).                                                           *)
(***************************************************************************)
\* C37: when the n-th write_tokens call is the writer's last, every reader
\* that keeps calling read_tokens eventually returns Some with the frame of
\* that call, and has it as the last frame it was given from then on
C37_DeliveryLiveness ==
    \A r \in Readers : \A n \in 1..MaxWrites :
        <>[](Len(write_calls) = n)
            => <>[](/\ delivered[r] = n
                    /\ Len(frames) = n
                    /\ last_sequence[r] = shm_seq)

\* a reader was given the frame of the second or a later write, the last so
\* far
C37_Witness ==
    \E r \in Readers :
        /\ wr.pc = "idle"
        /\ Len(write_calls) >= 2
        /\ delivered[r] = Len(write_calls)
        /\ rd_ret[r].some
        /\ rd_ret[r].tokens = frames[Len(frames)]

\* C38: whatever the writer does meanwhile, a reader loads the two bytes of
\* a length field only at offsets with offset + 2 <= max_data and copies the
\* bytes of a record only from offsets with offset + len <= max_data
C38_ReaderInBounds ==
    \A r \in DOMAIN rd :
        /\ rd[r].pc \in {"len_lo", "len_hi"} =>
              /\ 0 <= rd[r].offset
              /\ rd[r].offset + 2 <= max_data
        /\ rd[r].pc = "bytes" =>
              /\ 0 <= rd[r].offset
              /\ rd[r].j < rd[r].len
              /\ rd[r].offset + rd[r].len <= max_data

\* a reader copies a record that ends at the end of the data area while the
\* sequence number is no longer the one it loaded
C38_Witness ==
    \E r \in DOMAIN rd :
        /\ rd[r].pc = "bytes"
        /\ rd[r].seq1 # shm_seq
        /\ rd[r].offset + rd[r].len = max_data

(***************************************************************************)
(* Claims on RemoveSubstrings and RemoveSimilar (checked under SpecProc).  *)
(***************************************************************************)
\* the tokens of the list v that are a proper contiguous substring of no
\* token of v
MaximalTokens(v) ==
    {t \in Range(v) : ~\E u \in Range(v) : Len(u) > Len(t) /\ Occurs(t, u)}

\* C39: for a list of non-empty tokens RemoveSubstrings returns, each once,
\* exactly the input tokens that are a proper contiguous substring of no other
\* input token, a set that depends on the set of input tokens only; no
\* returned token is a contiguous substring of another returned token
C39_RemoveSubstringsResult ==
    (/\ proc.kind = "RemoveSubstrings"
     /\ proc_ret.pc # "call"
     /\ \A k \in DOMAIN proc_in : proc_in[k] # <<>>) =>
        /\ proc_ret.pc = "done"
        /\ Range(proc_ret.tokens) = MaximalTokens(proc_in)
        /\ proc_ret.some = (proc_in # <<>>)
        /\ \A i, j \in DOMAIN proc_ret.tokens :
              i # j => ~Occurs(proc_ret.tokens[i], proc_ret.tokens[j])

\* a list whose first token is a proper substring of its second, but no
\* prefix of it: the second token alone is returned
C39_Witness ==
    /\ proc.kind = "RemoveSubstrings"
    /\ proc_ret.some
    /\ Len(proc_in) = 2
    /\ Len(proc_in[1]) < Len(proc_in[2])
    /\ proc_in[1] # <<>>
    /\ proc_in[1] # SubSeq(proc_in[2], 1, Len(proc_in[1]))
    /\ proc_ret.tokens = <<proc_in[2]>>

\* the Levenshtein distance of a and b by its defining recurrence
RECURSIVE EditDistance(_, _)
EditDistance(a, b) ==
    IF a = <<>> THEN Len(b)
    ELSE IF b = <<>> THEN Len(a)
    ELSE IF Head(a) = Head(b) THEN EditDistance(Tail(a), Tail(b))
    ELSE 1 + Min(Min(EditDistance(Tail(a), b), EditDistance(a, Tail(b))),
                 EditDistance(Tail(a), Tail(b)))

\* 1 - d / max(|a|, |b|) >= threshold, two empty tokens having similarity 1
NormalizedSimilar(a, b, threshold) ==
    LET m == Max(Len(a), Len(b))
    IN  IF m = 0 THEN threshold.den >= threshold.num
        ELSE (m - EditDistance(a, b)) * threshold.den >= threshold.num * m

\* how often the token t occurs in the list v
TimesIn(v, t) == Cardinality({k \in DOMAIN v : v[k] = t})

\* C40: no two distinct positions of the list RemoveSimilar returns hold
\* tokens whose normalized Levenshtein similarity is at least the threshold,
\* and every dropped token has a similarity of at least the threshold to a
\* returned token that is at least as long (keep = Longer) or at most as long
\* (keep = Shorter)
C40_RemoveSimilarResult ==
    (proc.kind = "RemoveSimilar" /\ proc_ret.pc # "call") =>
        /\ proc_ret.pc = "done"
        /\ \A i, j \in DOMAIN proc_ret.tokens :
              i # j => ~NormalizedSimilar(proc_ret.tokens[i], proc_ret.tokens[j],
                                          proc.threshold)
        /\ \A t \in Range(proc_in) :
              TimesIn(proc_ret.tokens, t) < TimesIn(proc_in, t) =>
                  \E k \in DOMAIN proc_ret.tokens :
                      /\ NormalizedSimilar(t, proc_ret.tokens[k], proc.threshold)
                      /\ IF proc.keep = "Longer"
                         THEN Len(proc_ret.tokens[k]) >= Len(t)
                         ELSE Len(proc_ret.tokens[k]) <= Len(t)

\* keep = Shorter with threshold 1/2: the longer of two different tokens,
\* first in the input, is dropped for its similarity to the shorter one
C40_Witness ==
    /\ proc.kind = "RemoveSimilar"
    /\ proc.keep = "Shorter"
    /\ proc.threshold = Ratio(1, 2)
    /\ proc_ret.some
    /\ Len(proc_in) = 2
    /\ Len(proc_in[1]) > Len(proc_in[2])
    /\ proc_in[2] # <<>>
    /\ proc_ret.tokens = <<proc_in[2]>>

====
